---- MODULE Spec2Model ----
(***************************************************************************)
(* Stage 2 of the county sustainability pipeline                           *)
(* (BigQuerySustainabilityNormalizer.run_stage2): metric statistics,       *)
(* Z-score / percentile normalization with bounded retries, and the three  *)
(* aggregation passes over the tables raw_metrics, metric_statistics,      *)
(* normalized_metrics and aggregated_scores.                               *)
(*                                                                         *)
(* SQL FLOAT values are modelled as exact rationals <<num, den>> in lowest *)
(* terms with den > 0; SQL NULL is <<0, 0>>.  The square root of           *)
(* STDDEV_SAMP and the Z-score division are rounded to 1/ZScale.           *)
(* A metric_name is the sequence of the '_'-delimited segments of the      *)
(* column name; a measure_name is the sequence of the components that the  *)
(* SQL CONCATs with '_'.                                                   *)
(***************************************************************************)
EXTENDS Integers, Sequences, FiniteSets, TLC

(***************************************************************************)
(* Bounds of the model                                                     *)
(***************************************************************************)
\* number of counties (fips 1..NCounties) in raw_metrics
NCounties == 12
\* raw values of the varied county are drawn from 1..MaxRaw
MaxRaw == 1
\* resolution of the rounded square root and Z-score (1/ZScale)
ZScale == 100
\* number of transient errors raised inside the retry loop
MaxErrors == 3
\* number of successive invocations of run_stage2
MaxRuns == 2
\* length of the cell texts given to clean_numeric_value
MaxLen == 4
\* number of browser sessions of the dashboard
NSessions == 2

\* the largest state code passed to set_comparison_mode
MaxStateCode == 99
\* number of metric columns of the sheets given to load_metrics_data
MaxColumns == 3
\* number of iterations of the retry loop of one metric that are followed
MaxIterations == 4
\* number of counties of one state
CountiesPerState == 6

(***************************************************************************)
(* Program constants                                                       *)
(***************************************************************************)
\* HAVING COUNTIF(is_missing = FALSE) >= 10
MinValidCounties == 10
\* max_retries = 3
max_retries == 3
\* HAVING data_completeness >= 8
MinDataCompleteness == 8

(***************************************************************************)
(* Rational arithmetic for SQL FLOAT columns                               *)
(***************************************************************************)
Abs(x) == IF x < 0 THEN -x ELSE x

RECURSIVE GCD(_, _)
GCD(a, b) == IF b = 0 THEN a ELSE GCD(b, a % b)

LCM(a, b) == (a \div GCD(a, b)) * b

Null == <<0, 0>>

IsNull(x) == x[2] = 0

Rat(n, d) ==
    LET g == GCD(Abs(n), d)
    IN  IF n = 0 THEN <<0, 1>> ELSE <<n \div g, d \div g>>

RInt(n) == <<n, 1>>

\* x + y: NULL when an operand is NULL
RAdd(x, y) ==
    IF IsNull(x) \/ IsNull(y) THEN Null
    ELSE LET l == LCM(x[2], y[2])
         IN  Rat(x[1] * (l \div x[2]) + y[1] * (l \div y[2]), l)

RMulInt(x, k) ==
    LET g == GCD(Abs(k), x[2])
    IN  Rat(x[1] * (k \div g), x[2] \div g)

RDivInt(x, k) ==
    LET g == GCD(Abs(x[1]), k)
    IN  IF x[1] = 0 THEN <<0, 1>> ELSE <<x[1] \div g, x[2] * (k \div g)>>

RMul(x, y) ==
    LET g1 == GCD(Abs(x[1]), y[2])
        g2 == GCD(Abs(y[1]), x[2])
    IN  IF x[1] = 0 \/ y[1] = 0 THEN <<0, 1>>
        ELSE <<(x[1] \div g1) * (y[1] \div g2), (x[2] \div g2) * (y[2] \div g1)>>

\* x / y for y > 0
RDiv(x, y) == RMul(x, <<y[2], y[1]>>)

\* a float rounded down to a multiple of 1/ZScale
RoundTo(x) == Rat((x[1] * ZScale) \div x[2], ZScale)

RNeg(x) == <<-x[1], x[2]>>

RSub(x, y) == RAdd(x, RNeg(y))

RLe(x, y) ==
    LET l == LCM(x[2], y[2])
    IN  x[1] * (l \div x[2]) <= y[1] * (l \div y[2])

RLt(x, y) == RLe(x, y) /\ x # y

\* COALESCE(x, 0)
Coalesce0(x) == IF IsNull(x) THEN RInt(0) ELSE x

\* SAFE_DIVIDE(x, k) for an integer divisor: NULL when the divisor is 0
SafeDivide(x, k) == IF k = 0 \/ IsNull(x) THEN Null ELSE RDivInt(x, k)

\* SUM(f[r]) over the rows r of a result set S
RECURSIVE SumInt(_, _)
SumInt(S, f) ==
    IF S = {} THEN 0
    ELSE LET r == CHOOSE x \in S : TRUE IN f[r] + SumInt(S \ {r}, f)

RECURSIVE SumRat(_, _)
SumRat(S, f) ==
    IF S = {} THEN RInt(0)
    ELSE LET r == CHOOSE x \in S : TRUE IN RAdd(f[r], SumRat(S \ {r}, f))

\* AVG(f[r]) over the rows of a result set: NULL inputs are ignored, and the
\* result is NULL when no input is non-NULL
Avg(S, f) ==
    LET nn == {r \in S : ~IsNull(f[r])}
    IN  IF nn = {} THEN Null ELSE RDivInt(SumRat(nn, f), Cardinality(nn))

\* floor of the square root of n >= 0
RECURSIVE SqrtSearch(_, _, _)
SqrtSearch(n, lo, hi) ==
    IF lo >= hi THEN lo
    ELSE LET mid == (lo + hi + 1) \div 2
         IN  IF mid * mid <= n THEN SqrtSearch(n, mid, hi)
             ELSE SqrtSearch(n, lo, mid - 1)

ISqrt(n) == SqrtSearch(n, 0, 40000)

(***************************************************************************)
(* Stage 1 output: the columns of the sheet and the raw_metrics rows       *)
(***************************************************************************)
LifeExpectancy == <<"PEOPLE", "HEALTH", "LENGTHOFLIFE", "LIFEEXPECTANCY">>
PrematureDeath == <<"PEOPLE", "HEALTH", "LENGTHOFLIFE", "PREMATUREDEATH">>
InfantMortality == <<"PEOPLE", "HEALTH", "LENGTHOFLIFE", "INFANTMORTALITY">>
HivPrevRate == <<"PEOPLE", "HEALTH", "QUALITYOFLIFE", "HIVPREVRATE">>
PeopleWealth == <<"PEOPLE", "WEALTH">>

\* column_names[3:], in sheet order
metric_columns ==
    <<LifeExpectancy, PrematureDeath, InfantMortality, HivPrevRate, PeopleWealth>>

\* columns that stand for a whole sub-measure, as PeopleWealth does: the sheet
\* of the database the dashboard reads has one such column per sub-measure
other_columns ==
    << <<"PEOPLE", "COMMUNITY">>,
       <<"PEOPLE", "EDUCATION">>,
       <<"PRODUCTIVITY", "EMPLOYMENT">>,
       <<"PRODUCTIVITY", "GOVERNMENT">>,
       <<"PRODUCTIVITY", "BUSINESS">>,
       <<"PLACE", "LANDAIRWATER">>,
       <<"PLACE", "CLIMATEANDRESILIENCE">> >>

\* a nested column whose third segment is the capitalized second segment
WealthNested == <<"PEOPLE", "WEALTH", "Wealth">>

\* a column whose first segment is none of PEOPLE, PRODUCTIVITY, PLACE
TotalPopulation == <<"TOTAL", "POPULATION">>

\* every column name a sheet may have, in sheet order
all_columns ==
    metric_columns \o other_columns \o <<WealthNested, TotalPopulation>>

\* self.reverse_metrics (the entries under PEOPLE_HEALTH and PEOPLE_WEALTH)
reverse_metrics ==
    { PrematureDeath,
      <<"PEOPLE", "HEALTH", "QUALITYOFLIFE", "FREQPHYDISTRESS">>,
      <<"PEOPLE", "HEALTH", "QUALITYOFLIFE", "FREQMENDISTRESS">>,
      <<"PEOPLE", "HEALTH", "QUALITYOFLIFE", "ADULTWITHDIABETES">>,
      HivPrevRate,
      <<"PEOPLE", "WEALTH", "INCOMERATIO80BY20">>,
      <<"PEOPLE", "WEALTH", "CHILDPOVERTY">> }

\* str.capitalize() on the segments that occur as segment 0 or 1
Capitalize(seg) ==
    CASE seg = "PEOPLE" -> "People"
      [] seg = "HEALTH" -> "Health"
      [] seg = "WEALTH" -> "Wealth"
      [] seg = "COMMUNITY" -> "Community"
      [] seg = "EDUCATION" -> "Education"
      [] seg = "PRODUCTIVITY" -> "Productivity"
      [] seg = "EMPLOYMENT" -> "Employment"
      [] seg = "GOVERNMENT" -> "Government"
      [] seg = "BUSINESS" -> "Business"
      [] seg = "PLACE" -> "Place"
      [] seg = "LANDAIRWATER" -> "Landairwater"
      [] seg = "CLIMATEANDRESILIENCE" -> "Climateandresilience"
      [] seg = "TOTAL" -> "Total"
      [] seg = "POPULATION" -> "Population"
      [] OTHER -> seg

parse_metric_hierarchy(column_name) ==
    LET parts == column_name
    IN  IF Len(parts) < 2
        THEN [valid |-> FALSE, original_name |-> column_name,
              top_level |-> "", sub_measure |-> "", metric_group |-> ""]
        ELSE [valid |-> TRUE,
              original_name |-> column_name,
              top_level |-> Capitalize(parts[1]),
              sub_measure |-> Capitalize(parts[2]),
              metric_group |-> IF Len(parts) = 2 THEN Capitalize(parts[2])
                               ELSE parts[3]]

Fips == 1..NCounties

\* the county whose cells are varied; the cells of the other counties are fixed
VariedFips == {1}

\* results of clean_numeric_value: (None, True) or (number, False)
MissingCell == [raw_value |-> Null, is_missing |-> TRUE]

ValidCell(v) == [raw_value |-> RInt(v), is_missing |-> FALSE]

CleanedCells == {MissingCell} \cup {ValidCell(v) : v \in 1..MaxRaw}

\* the cleaned cell of county c in column k for the counties that are not varied:
\* column 1 has ties and no gaps, column 2 one gap, column 3 has
\* MinValidCounties - 1 valid cells, column 4 distinct values and one gap,
\* column 5 is constant
FixedCell(c, k) ==
    CASE k = 1 -> ValidCell((c % 3) + 1)
      [] k = 2 -> IF c = 2 THEN MissingCell ELSE ValidCell((c % 2) + 1)
      [] k = 3 -> IF c > MinValidCounties THEN MissingCell ELSE ValidCell((c % 4) + 1)
      [] k = 4 -> IF c = 3 THEN MissingCell ELSE ValidCell(c)
      [] OTHER -> ValidCell(2)

\* the sheets stage 1 may have loaded
Sheets ==
    { [ck \in Fips \X (1..Len(metric_columns)) |->
          IF ck[1] \in VariedFips THEN v[ck[2]] ELSE FixedCell(ck[1], ck[2])] :
      v \in [1..Len(metric_columns) -> CleanedCells] }

\* the rows load_metrics_data appends to raw_metrics
load_metrics_data(sheet) ==
    { [fips |-> c,
       metric_name |-> parse_metric_hierarchy(metric_columns[k]).original_name,
       raw_value |-> sheet[<<c, k>>].raw_value,
       is_missing |-> sheet[<<c, k>>].is_missing,
       top_level |-> parse_metric_hierarchy(metric_columns[k]).top_level,
       sub_measure |-> parse_metric_hierarchy(metric_columns[k]).sub_measure,
       metric_group |-> parse_metric_hierarchy(metric_columns[k]).metric_group] :
      <<c, k>> \in {ck \in Fips \X (1..Len(metric_columns)) :
                      parse_metric_hierarchy(metric_columns[ck[2]]).valid} }

(***************************************************************************)
(* Stage 1: clean_numeric_value                                            *)
(***************************************************************************)
\* the characters of the cell texts
Alphabet == {"1", ".", "-", "(", ")", "$", ",", "%", " ", "n", "a"}

\* the cell texts: all strings over Alphabet of at most MaxLen characters
CellTexts == UNION {[1..n -> Alphabet] : n \in 0..MaxLen}

\* a null cell (None or NaN), for which pd.isna is true
NoneValue == <<"None">>

\* str.strip()
RECURSIVE Strip(_)
Strip(str) ==
    IF str = <<>> THEN str
    ELSE IF Head(str) = " " THEN Strip(Tail(str))
    ELSE IF str[Len(str)] = " " THEN Strip(SubSeq(str, 1, Len(str) - 1))
    ELSE str

\* str.upper()
Upper(str) ==
    [i \in 1..Len(str) |->
        CASE str[i] = "n" -> "N"
          [] str[i] = "a" -> "A"
          [] OTHER -> str[i]]

\* ['NA', 'NULL', 'NAN', 'N/A', 'NONE']
Sentinels ==
    { <<"N", "A">>, <<"N", "U", "L", "L">>, <<"N", "A", "N">>,
      <<"N", "/", "A">>, <<"N", "O", "N", "E">> }

\* re.sub(r'[$,\s%]', '', clean_str)
RemoveFormatting(str) ==
    LET kept(c) == c \notin {"$", ",", " ", "%"}
    IN  SelectSeq(str, kept)

\* '(...)' becomes '-...'
NegativeParentheses(str) ==
    IF str # <<>> /\ Head(str) = "(" /\ str[Len(str)] = ")"
    THEN <<"-">> \o SubSeq(str, 2, Len(str) - 1)
    ELSE str

Digits == {"0", "1", "2", "3", "4", "5", "6", "7", "8", "9"}

DigitValue(c) ==
    CASE c = "0" -> 0 [] c = "1" -> 1 [] c = "2" -> 2 [] c = "3" -> 3
      [] c = "4" -> 4 [] c = "5" -> 5 [] c = "6" -> 6 [] c = "7" -> 7
      [] c = "8" -> 8 [] c = "9" -> 9

\* the number a string of digits denotes (0 for the empty string)
RECURSIVE DigitsValue(_)
DigitsValue(str) ==
    IF str = <<>> THEN 0
    ELSE DigitsValue(SubSeq(str, 1, Len(str) - 1)) * 10 + DigitValue(str[Len(str)])

RECURSIVE Pow10(_)
Pow10(n) == IF n = 0 THEN 1 ELSE 10 * Pow10(n - 1)

\* float('nan')
NaN == <<0, -1>>

\* float() raising ValueError
ValueError == <<0, -2>>

\* float(str) for a string without whitespace: an optional sign followed by
\* NAN or by digits with at most one point and at least one digit. The forms
\* with INF, an exponent or an underscore need characters outside Alphabet
Float(str) ==
    LET signed == str # <<>> /\ Head(str) \in {"-", "+"}
        body == IF signed THEN Tail(str) ELSE str
        points == {i \in 1..Len(body) : body[i] = "."}
        point == IF points = {} THEN Len(body) + 1 ELSE CHOOSE i \in points : TRUE
        whole == SubSeq(body, 1, point - 1)
        frac == SubSeq(body, point + 1, Len(body))
        digits == whole \o frac
        magnitude == DigitsValue(whole) * Pow10(Len(frac)) + DigitsValue(frac)
    IN  IF body = <<"N", "A", "N">> THEN NaN
        ELSE IF \/ Cardinality(points) > 1
                \/ digits = <<>>
                \/ \E i \in 1..Len(digits) : digits[i] \notin Digits
             THEN ValueError
        ELSE Rat(IF signed /\ Head(str) = "-" THEN -magnitude ELSE magnitude,
                 Pow10(Len(frac)))

\* clean_numeric_value(value_str): (numeric_value, is_missing)
clean_numeric_value(str) ==
    LET missing == [raw_value |-> Null, is_missing |-> TRUE]
        clean_str == NegativeParentheses(RemoveFormatting(Upper(Strip(str))))
    IN  IF str = NoneValue \/ str = <<>> THEN missing
        ELSE IF Upper(Strip(str)) = <<>> \/ Upper(Strip(str)) \in Sentinels THEN missing
        ELSE IF Float(clean_str) = ValueError THEN missing
        ELSE [raw_value |-> Float(clean_str), is_missing |-> FALSE]

(***************************************************************************)
(* The dashboard's sessions                                                *)
(***************************************************************************)
Sessions == 1..NSessions

\* provider.current_state = None
NoState == 0

\* the empty string as a state code
EmptyState == -1

\* bool(state_code): None and '' are false, every other string is true
Truthy(state_code) == state_code \notin {NoState, EmptyState}

\* a session before authenticate_and_display has built the layout, or after it
\* has shown the access-denied layout: there are no stores
NoSession ==
    [county_fips |-> 0, comparison_mode_store |-> "national", county_data |-> {},
     data_mode |-> "national", data_state |-> NoState,
     details |-> {}, details_mode |-> "national", details_state |-> NoState,
     chart_due |-> FALSE, chart_mode |-> "national", chart_state |-> NoState]

(***************************************************************************)
(* State                                                                   *)
(***************************************************************************)
VARIABLES
    raw_metrics,         \* table raw_metrics (written by stage 1)
    metric_statistics,   \* table metric_statistics
    normalized_metrics,  \* table normalized_metrics
    aggregated_scores,   \* table aggregated_scores
    pc,                  \* position of run_stage2
    stats_df,            \* normalize_metrics: the fetched statistics rows
    idx,                 \* normalize_metrics: position in stats_df
    retry_count,         \* normalize_metrics: retry_count of the current metric
    processed_metrics,   \* normalize_metrics: metric names found already processed
    uploaded,            \* normalize_metrics: metrics whose loop ended with success
    errors,              \* number of errors raised inside the retry loop so far
    run,                 \* number of the current invocation of run_stage2
    first_run,           \* the three tables as the previous invocation left them
    value_str,           \* stage 1: the cell text given to clean_numeric_value
    cleaned,             \* stage 1: what clean_numeric_value returned, if called
    comparison_mode,     \* dashboard: provider.comparison_mode
    current_state,       \* dashboard: provider.current_state
    session,             \* dashboard: the stores of every browser session
    column_names,        \* stage 1: column_names[3:] of the sheet being loaded
    col_idx,             \* stage 1: number of columns load_metrics_data has processed
    metrics_data,        \* stage 1: the rows load_metrics_data has collected
    skipped_columns,     \* stage 1: skipped_columns of load_metrics_data
    total_values,        \* stage 1: total_values of load_metrics_data
    iterations           \* normalize_metrics: iterations of the retry loop so far

vars == <<raw_metrics, metric_statistics, normalized_metrics, aggregated_scores,
          pc, stats_df, idx, retry_count, processed_metrics, uploaded, errors,
          run, first_run, value_str, cleaned, comparison_mode, current_state,
          session, column_names, col_idx, metrics_data, skipped_columns,
          total_values, iterations>>

tables == <<metric_statistics, normalized_metrics, aggregated_scores>>

loop == <<stats_df, idx, retry_count, iterations, processed_metrics, uploaded, errors>>

cleaner == <<value_str, cleaned>>

dashboard == <<comparison_mode, current_state, session>>

loader == <<column_names, col_idx, metrics_data, skipped_columns, total_values>>

\* what one invocation of run_stage2 leaves alone
rest == <<run, first_run, cleaner, loader, dashboard>>

\* the rows one INSERT statement of invocation n adds to a table: rows written
\* by different statements are different rows even when their columns agree
Inserted(rows, n) ==
    { [f \in DOMAIN r \cup {"inserted_in"} |->
          IF f = "inserted_in" THEN n ELSE r[f]] : r \in rows }

\* job_id = normalize_<metric>_<uuid4>: a value no earlier load job of the
\* metric has, here the number of load jobs that have written rows of the metric
JobId(metric_name) ==
    Cardinality({r.job_id : r \in {x \in normalized_metrics :
                                        x.metric_name = metric_name}})

\* the rows the load job job_id appends (WRITE_APPEND)
LoadJob(rows, job_id) ==
    { [f \in DOMAIN r \cup {"job_id"} |->
          IF f = "job_id" THEN job_id ELSE r[f]] : r \in rows }

Init ==
    /\ raw_metrics \in {load_metrics_data(sheet) : sheet \in Sheets}
    /\ metric_statistics = {}
    /\ normalized_metrics = {}
    /\ aggregated_scores = {}
    /\ pc = "connect"
    /\ stats_df = <<>>
    /\ idx = 1
    /\ retry_count = 0
    /\ iterations = 0
    /\ processed_metrics = {}
    /\ uploaded = {}
    /\ errors = 0
    /\ run = 1
    /\ first_run = <<>>
    /\ value_str = <<>>
    /\ cleaned = {}
    /\ comparison_mode = "national"
    /\ current_state = NoState
    /\ session = [s \in Sessions |-> NoSession]
    /\ column_names = <<>>
    /\ col_idx = 0
    /\ metrics_data = {}
    /\ skipped_columns = 0
    /\ total_values = 0

(***************************************************************************)
(* connect and create_normalization_tables                                 *)
(***************************************************************************)
\* connect() returns True, or returns False and run_stage2 raises
connect ==
    /\ pc = "connect"
    /\ pc' \in {"create_tables", "failed"}
    /\ UNCHANGED <<raw_metrics, tables, loop>>
    /\ UNCHANGED rest

\* create_normalization_tables that keeps the tables that exist
create_normalization_tables_keeping ==
    /\ pc = "create_tables"
    /\ pc' = "statistics"
    /\ UNCHANGED <<raw_metrics, tables, loop>>
    /\ UNCHANGED rest

\* drops and recreates the three output tables
create_normalization_tables ==
    /\ pc = "create_tables"
    /\ metric_statistics' = {}
    /\ normalized_metrics' = {}
    /\ aggregated_scores' = {}
    /\ pc' = "statistics"
    /\ UNCHANGED <<raw_metrics, loop>>
    /\ UNCHANGED rest

(***************************************************************************)
(* calculate_metric_statistics                                             *)
(***************************************************************************)
\* StddevSamp with the divisor n of STDDEV_POP
StddevPop(rows) ==
    LET n == Cardinality(rows)
        mean == Avg(rows, [r \in rows |-> r.raw_value])
        sq == [r \in rows |-> RMul(RSub(r.raw_value, mean), RSub(r.raw_value, mean))]
        var == RDivInt(SumRat(rows, sq), n)
    IN  Rat(ISqrt((var[1] * ZScale * ZScale) \div var[2]), ZScale)

\* STDDEV_SAMP of the raw values of a set of rows with at least two rows
StddevSamp(rows) ==
    LET n == Cardinality(rows)
        mean == Avg(rows, [r \in rows |-> r.raw_value])
        sq == [r \in rows |-> RMul(RSub(r.raw_value, mean), RSub(r.raw_value, mean))]
        var == RDivInt(SumRat(rows, sq), n - 1)
    IN  Rat(ISqrt((var[1] * ZScale * ZScale) \div var[2]), ZScale)

RMin(rows) == (CHOOSE r \in rows : \A q \in rows : RLe(r.raw_value, q.raw_value)).raw_value

RMax(rows) == (CHOOSE r \in rows : \A q \in rows : RLe(q.raw_value, r.raw_value)).raw_value

\* MetricStatisticsRows with HAVING valid > MinValidCounties
MetricStatisticsRowsAbove ==
    LET src == {r \in raw_metrics : ~IsNull(r.raw_value)}
        names == {r.metric_name : r \in src}
        grp(m) == {r \in src : r.metric_name = m}
        valid(m) == Cardinality({r \in grp(m) : r.is_missing = FALSE})
    IN  { [metric_name |-> m,
           total_counties |-> Cardinality(grp(m)),
           valid_counties |-> valid(m),
           missing_counties |-> Cardinality({r \in grp(m) : r.is_missing = TRUE}),
           mean_value |-> Avg(grp(m), [r \in grp(m) |-> r.raw_value]),
           std_dev |-> StddevSamp(grp(m)),
           min_value |-> RMin(grp(m)),
           max_value |-> RMax(grp(m)),
           is_reverse_metric |-> m \in reverse_metrics,
           data_quality_score |-> SafeDivide(RInt(valid(m)), Cardinality(grp(m)))] :
          m \in {x \in names : valid(x) > MinValidCounties} }

\* the INSERT ... SELECT ... GROUP BY metric_name HAVING ..., followed by the
\* UPDATE of is_reverse_metric (median_value is not modelled)
MetricStatisticsRows ==
    LET src == {r \in raw_metrics : ~IsNull(r.raw_value)}
        names == {r.metric_name : r \in src}
        grp(m) == {r \in src : r.metric_name = m}
        valid(m) == Cardinality({r \in grp(m) : r.is_missing = FALSE})
    IN  { [metric_name |-> m,
           total_counties |-> Cardinality(grp(m)),
           valid_counties |-> valid(m),
           missing_counties |-> Cardinality({r \in grp(m) : r.is_missing = TRUE}),
           mean_value |-> Avg(grp(m), [r \in grp(m) |-> r.raw_value]),
           std_dev |-> StddevSamp(grp(m)),
           min_value |-> RMin(grp(m)),
           max_value |-> RMax(grp(m)),
           is_reverse_metric |-> m \in reverse_metrics,
           data_quality_score |-> SafeDivide(RInt(valid(m)), Cardinality(grp(m)))] :
          m \in {x \in names : valid(x) >= MinValidCounties} }

calculate_metric_statistics ==
    /\ pc = "statistics"
    /\ metric_statistics' = metric_statistics \cup Inserted(MetricStatisticsRows, run)
    /\ pc' = "normalize"
    /\ UNCHANGED <<raw_metrics, normalized_metrics, aggregated_scores, loop>>
    /\ UNCHANGED rest

(***************************************************************************)
(* normalize_metrics                                                       *)
(***************************************************************************)
\* percentileofscore with kind 'weak': the percentage of values at or below
\* the score
percentileofscore_weak(all_rows, score) ==
    LET n == Cardinality(all_rows)
        right == Cardinality({r \in all_rows : RLe(r.raw_value, score)})
    IN  IF n = 0 THEN Null ELSE Rat(right * 100, n)

\* percentileofscore with the factor 100 / n in place of 50 / n
percentileofscore_unhalved(all_rows, score) ==
    LET n == Cardinality(all_rows)
        left == Cardinality({r \in all_rows : RLt(r.raw_value, score)})
        right == Cardinality({r \in all_rows : RLe(r.raw_value, score)})
        plus1 == IF left < right THEN 1 ELSE 0
    IN  IF n = 0 THEN Null ELSE Rat((left + right + plus1) * 100, n)

\* scipy.stats.percentileofscore(all_values, score) with the default kind
\* 'rank'; all_values are the raw values of the rows in all_rows
percentileofscore(all_rows, score) ==
    LET n == Cardinality(all_rows)
        left == Cardinality({r \in all_rows : RLt(r.raw_value, score)})
        right == Cardinality({r \in all_rows : RLe(r.raw_value, score)})
        plus1 == IF left < right THEN 1 ELSE 0
    IN  IF n = 0 THEN Null ELSE Rat((left + right + plus1) * 50, n)

\* PercentileRank without the inversion of reverse metrics
PercentileRankNotInverted(all_rows, raw_value, is_reverse) ==
    percentileofscore(all_rows, raw_value)

\* the percentile of one valid row: inverted for a reverse metric
PercentileRank(all_rows, raw_value, is_reverse) ==
    IF is_reverse
    THEN RSub(RInt(100), percentileofscore(all_rows, raw_value))
    ELSE percentileofscore(all_rows, raw_value)

\* z_score = (raw_value - mean_val) / std_val, None when it is NaN: with
\* std_val = 0 every value equals the mean and numpy gives 0/0 = NaN
ZScore(raw_value, mean_val, std_val) ==
    IF std_val[1] = 0 THEN Null
    ELSE RoundTo(RDiv(RSub(raw_value, mean_val), std_val))

\* the dictionary appended to normalized_data for one row of values_df
NormalizedRow(value_row, stat_row, all_rows) ==
    LET none == value_row.is_missing \/ IsNull(value_row.raw_value)
    IN  [fips |-> value_row.fips,
         metric_name |-> stat_row.metric_name,
         raw_value |-> value_row.raw_value,
         normalized_value |->
            IF none THEN Null
            ELSE ZScore(value_row.raw_value, stat_row.mean_value, stat_row.std_dev),
         percentile_rank |->
            IF none THEN Null
            ELSE PercentileRank(all_rows, value_row.raw_value,
                                stat_row.is_reverse_metric),
         is_missing |-> value_row.is_missing]

\* NormalizedData with values_df restricted to the valid observations
NormalizedDataValidOnly(stat_row) ==
    LET all_rows == {r \in raw_metrics :
                        /\ r.metric_name = stat_row.metric_name
                        /\ r.is_missing = FALSE
                        /\ ~IsNull(r.raw_value)}
    IN  {NormalizedRow(value_row, stat_row, all_rows) : value_row \in all_rows}

\* normalized_data of one metric: one dictionary per row of values_df
NormalizedData(stat_row) ==
    LET values_df == {r \in raw_metrics : r.metric_name = stat_row.metric_name}
        all_rows == {r \in raw_metrics :
                        /\ r.metric_name = stat_row.metric_name
                        /\ r.is_missing = FALSE
                        /\ ~IsNull(r.raw_value)}
    IN  {NormalizedRow(value_row, stat_row, all_rows) : value_row \in values_df}

\* StatsQuery without WHERE std_dev > 0
StatsQueryAllRows ==
    LET qualifies(m) == \E st \in metric_statistics : st.metric_name = m
        names == SelectSeq(all_columns, qualifies)
    IN  [i \in 1..Len(names) |->
           CHOOSE st \in metric_statistics : st.metric_name = names[i]]

\* stats_query (WHERE std_dev > 0), in column order
StatsQuery ==
    LET qualifies(m) == \E st \in metric_statistics :
                           st.metric_name = m /\ RLt(RInt(0), st.std_dev)
        names == SelectSeq(all_columns, qualifies)
    IN  [i \in 1..Len(names) |->
           CHOOSE st \in metric_statistics :
              st.metric_name = names[i] /\ RLt(RInt(0), st.std_dev)]

\* the position of the first metric at or after position i that is not skipped
\* as already processed
RECURSIVE SkipProcessed(_, _, _)
SkipProcessed(df, processed, i) ==
    IF i <= Len(df) /\ df[i].metric_name \in processed
    THEN SkipProcessed(df, processed, i + 1)
    ELSE i

\* the two queries before the metric loop, and the entry into the loop
normalize_begin ==
    /\ pc = "normalize"
    /\ stats_df' = StatsQuery
    /\ processed_metrics' = {r.metric_name : r \in normalized_metrics}
    /\ idx' = SkipProcessed(stats_df', processed_metrics', 1)
    /\ retry_count' = 0
    /\ iterations' = 0
    /\ uploaded' = {}
    /\ pc' = "normalize_loop"
    /\ UNCHANGED <<raw_metrics, tables, errors>>
    /\ UNCHANGED rest

\* one iteration of the retry loop in which the queries and the load job succeed
normalize_upload ==
    /\ pc = "normalize_loop"
    /\ idx <= Len(stats_df)
    /\ retry_count < max_retries
    /\ LET normalized_data == NormalizedData(stats_df[idx])
       IN  IF normalized_data # {}
           THEN /\ normalized_metrics' =
                     normalized_metrics \cup LoadJob(normalized_data,
                                                JobId(stats_df[idx].metric_name))
                /\ uploaded' = uploaded \cup {stats_df[idx].metric_name}
                /\ idx' = SkipProcessed(stats_df, processed_metrics, idx + 1)
                /\ retry_count' = 0
                /\ iterations' = 0
           ELSE /\ iterations < MaxIterations
                /\ iterations' = iterations + 1
                /\ UNCHANGED <<normalized_metrics, uploaded, idx, retry_count>>
    /\ UNCHANGED <<raw_metrics, metric_statistics, aggregated_scores, pc,
                   stats_df, processed_metrics, errors>>
    /\ UNCHANGED rest

\* normalize_error that re-raises once max_retries is reached
normalize_error_reraises ==
    /\ pc = "normalize_loop"
    /\ idx <= Len(stats_df)
    /\ retry_count < max_retries
    /\ errors < MaxErrors
    /\ errors' = errors + 1
    /\ IF retry_count + 1 < max_retries
       THEN /\ retry_count' = retry_count + 1
            /\ iterations' = iterations + 1
            /\ pc' = pc
       ELSE /\ retry_count' = 0
            /\ iterations' = 0
            /\ pc' = "failed"
    /\ UNCHANGED <<raw_metrics, tables, idx, stats_df, processed_metrics, uploaded>>
    /\ UNCHANGED rest

\* one iteration of the retry loop in which a query or the load job raises
\* before any row is written: retry, or give up after max_retries
normalize_error ==
    /\ pc = "normalize_loop"
    /\ idx <= Len(stats_df)
    /\ retry_count < max_retries
    /\ errors < MaxErrors
    /\ errors' = errors + 1
    /\ IF retry_count + 1 < max_retries
       THEN /\ retry_count' = retry_count + 1
            /\ iterations' = iterations + 1
            /\ idx' = idx
       ELSE /\ retry_count' = 0
            /\ iterations' = 0
            /\ idx' = SkipProcessed(stats_df, processed_metrics, idx + 1)
    /\ UNCHANGED <<raw_metrics, tables, pc, stats_df, processed_metrics, uploaded>>
    /\ UNCHANGED rest

\* normalize_return that may leave the metric loop before it is exhausted
normalize_return_early ==
    /\ pc = "normalize_loop"
    /\ pc' = "metric_groups"
    /\ UNCHANGED <<raw_metrics, tables, loop>>
    /\ UNCHANGED rest

\* the metric loop is exhausted: normalize_metrics returns
normalize_return ==
    /\ pc = "normalize_loop"
    /\ idx > Len(stats_df)
    /\ pc' = "metric_groups"
    /\ UNCHANGED <<raw_metrics, tables, loop>>
    /\ UNCHANGED rest

(***************************************************************************)
(* The three aggregation passes                                            *)
(***************************************************************************)
\* metric_group IS NULL never holds for a parsed column
NullString == "<NULL>"

\* normalized_metrics nm JOIN raw_metrics rm
\*   ON nm.fips = rm.fips AND nm.metric_name = rm.metric_name
NmJoinRm ==
    UNION { { [nm |-> n, rm |-> r] :
              r \in {x \in raw_metrics :
                        x.fips = n.fips /\ x.metric_name = n.metric_name} } :
            n \in normalized_metrics }

\* AvgPresentPercentile with a missing leaf averaged in as 0
AvgPercentileMissingAsZero(J) ==
    Avg(J, [j \in J |-> Coalesce0(j.nm.percentile_rank)])

\* AVG(IF(nm.is_missing = FALSE, nm.<col>, NULL)) over join rows
AvgPresentPercentile(J) ==
    Avg(J, [j \in J |-> IF j.nm.is_missing = FALSE THEN j.nm.percentile_rank ELSE Null])

AvgPresentNormalized(J) ==
    Avg(J, [j \in J |-> IF j.nm.is_missing = FALSE THEN j.nm.normalized_value ELSE Null])

CountIfMissing(J) == Cardinality({j \in J : j.nm.is_missing = TRUE})

CountIfPresent(J) == Cardinality({j \in J : j.nm.is_missing = FALSE})

\* MetricGroupRows without HAVING COUNT(DISTINCT rm.metric_name) > 1
MetricGroupRowsNoHaving ==
    LET J == NmJoinRm
        src == {j \in J : j.rm.metric_group # NullString}
        keys == {<<j.nm.fips, j.rm.top_level, j.rm.sub_measure, j.rm.metric_group>> :
                    j \in src}
        grp(k) == {j \in src : /\ j.nm.fips = k[1]
                               /\ j.rm.top_level = k[2]
                               /\ j.rm.sub_measure = k[3]
                               /\ j.rm.metric_group = k[4]}
        distinct(k) == Cardinality({j.rm.metric_name : j \in grp(k)})
        row(k, G) ==
           [fips |-> k[1],
            measure_name |-> <<k[2], k[3], k[4]>>,
            measure_level |-> "metric_group",
            parent_measure |-> <<k[2], k[3]>>,
            raw_score |-> AvgPresentPercentile(G),
            normalized_score |-> AvgPresentNormalized(G),
            percentile_rank |-> AvgPresentPercentile(G),
            component_count |-> Cardinality(G),
            missing_components |-> CountIfMissing(G),
            completeness_ratio |-> SafeDivide(RInt(CountIfPresent(G)), Cardinality(G))]
    IN  {row(k, grp(k)) : k \in keys}

\* Pass 1: the SELECT of aggregate_metric_groups
MetricGroupRows ==
    LET J == NmJoinRm
        src == {j \in J : j.rm.metric_group # NullString}
        keys == {<<j.nm.fips, j.rm.top_level, j.rm.sub_measure, j.rm.metric_group>> :
                    j \in src}
        grp(k) == {j \in src : /\ j.nm.fips = k[1]
                               /\ j.rm.top_level = k[2]
                               /\ j.rm.sub_measure = k[3]
                               /\ j.rm.metric_group = k[4]}
        distinct(k) == Cardinality({j.rm.metric_name : j \in grp(k)})
        row(k, G) ==
           [fips |-> k[1],
            measure_name |-> <<k[2], k[3], k[4]>>,
            measure_level |-> "metric_group",
            parent_measure |-> <<k[2], k[3]>>,
            raw_score |-> AvgPresentPercentile(G),
            normalized_score |-> AvgPresentNormalized(G),
            percentile_rank |-> AvgPresentPercentile(G),
            component_count |-> Cardinality(G),
            missing_components |-> CountIfMissing(G),
            completeness_ratio |-> SafeDivide(RInt(CountIfPresent(G)), Cardinality(G))]
    IN  {row(k, grp(k)) : k \in {x \in keys : distinct(x) > 1}}

aggregate_metric_groups ==
    /\ pc = "metric_groups"
    /\ aggregated_scores' = aggregated_scores \cup Inserted(MetricGroupRows, run)
    /\ pc' = "sub_measures"
    /\ UNCHANGED <<raw_metrics, metric_statistics, normalized_metrics, loop>>
    /\ UNCHANGED rest

\* the CTE temp_submeasure_metrics
temp_submeasure_metrics ==
    LET J == NmJoinRm
        keys == {<<j.nm.fips, j.rm.top_level, j.rm.sub_measure>> : j \in J}
        grp(k) == {j \in J : /\ j.nm.fips = k[1]
                             /\ j.rm.top_level = k[2]
                             /\ j.rm.sub_measure = k[3]}
        row(k, G) ==
           [fips |-> k[1],
            measure_name |-> <<k[2], k[3]>>,
            avg_normalized |-> AvgPresentNormalized(G),
            avg_percentile |-> AvgPresentPercentile(G),
            component_count |-> Cardinality(G),
            missing_count |-> CountIfMissing(G)]
    IN  {row(k, grp(k)) : k \in keys}

\* the CTE temp_submeasure_groups
temp_submeasure_groups ==
    LET src == {a \in aggregated_scores : a.measure_level = "metric_group"}
        keys == {<<a.fips, a.parent_measure>> : a \in src}
        grp(k) == {a \in src : a.fips = k[1] /\ a.parent_measure = k[2]}
        row(k, G) ==
           [fips |-> k[1],
            measure_name |-> k[2],
            avg_normalized |-> Avg(G, [a \in G |-> a.normalized_score]),
            avg_percentile |-> Avg(G, [a \in G |-> a.percentile_rank]),
            component_count |-> Cardinality(G),
            missing_count |-> SumInt(G, [a \in G |-> a.missing_components])]
    IN  {row(k, grp(k)) : k \in keys}

\* the row a FULL OUTER JOIN supplies for the side without a match: all NULL
\* (an integer NULL is only ever read through COALESCE(x, 0))
NoMatch == [avg_normalized |-> Null, avg_percentile |-> Null,
            component_count |-> 0, missing_count |-> 0]

\* SAFE_DIVIDE(COALESCE(m.avg, 0) * COALESCE(m.component_count, 0) +
\*             COALESCE(g.avg, 0) * COALESCE(g.component_count, 0),
\*             COALESCE(m.component_count, 0) + COALESCE(g.component_count, 0))
WeightedScore(m_avg, m_count, g_avg, g_count) ==
    SafeDivide(RAdd(RMulInt(Coalesce0(m_avg), m_count),
                    RMulInt(Coalesce0(g_avg), g_count)),
               m_count + g_count)

\* Pass 2: the SELECT of aggregate_sub_measures over
\* temp_submeasure_metrics m FULL OUTER JOIN temp_submeasure_groups g
SubMeasureRows ==
    LET ms == temp_submeasure_metrics
        gs == temp_submeasure_groups
        keys == {<<x.fips, x.measure_name>> : x \in ms \cup gs}
        side(S, k) == IF \E x \in S : x.fips = k[1] /\ x.measure_name = k[2]
                      THEN LET x == CHOOSE x \in S :
                                       x.fips = k[1] /\ x.measure_name = k[2]
                           IN  [avg_normalized |-> x.avg_normalized,
                                avg_percentile |-> x.avg_percentile,
                                component_count |-> x.component_count,
                                missing_count |-> x.missing_count]
                      ELSE NoMatch
        row(k, m, g) ==
           [fips |-> k[1],
            measure_name |-> k[2],
            measure_level |-> "sub_measure",
            parent_measure |-> <<k[2][1]>>,
            raw_score |-> WeightedScore(m.avg_percentile, m.component_count,
                                        g.avg_percentile, g.component_count),
            normalized_score |-> WeightedScore(m.avg_normalized, m.component_count,
                                               g.avg_normalized, g.component_count),
            percentile_rank |-> WeightedScore(m.avg_percentile, m.component_count,
                                              g.avg_percentile, g.component_count),
            component_count |-> m.component_count + g.component_count,
            missing_components |-> m.missing_count + g.missing_count,
            completeness_ratio |->
               SafeDivide(RInt(m.component_count + g.component_count
                               - m.missing_count - g.missing_count),
                          m.component_count + g.component_count)]
    IN  {row(k, side(ms, k), side(gs, k)) : k \in keys}

\* aggregate_sub_measures writing its rows in place of the table's rows
aggregate_sub_measures_replacing ==
    /\ pc = "sub_measures"
    /\ aggregated_scores' = Inserted(SubMeasureRows, run)
    /\ pc' = "top_level"
    /\ UNCHANGED <<raw_metrics, metric_statistics, normalized_metrics, loop>>
    /\ UNCHANGED rest

aggregate_sub_measures ==
    /\ pc = "sub_measures"
    /\ aggregated_scores' = aggregated_scores \cup Inserted(SubMeasureRows, run)
    /\ pc' = "top_level"
    /\ UNCHANGED <<raw_metrics, metric_statistics, normalized_metrics, loop>>
    /\ UNCHANGED rest

\* sub.parent_measure IN ('People', 'Productivity', 'Place')
TopLevelCategories == {<<"People">>, <<"Productivity">>, <<"Place">>}

\* TopLevelScore weighted by the component_count of the sub_measure rows
TopLevelScoreWeighted(rows, col) ==
    SafeDivide(SumRat(rows, [a \in rows |-> RMulInt(a[col], a.component_count)]),
               SumInt(rows, [a \in rows |-> a.component_count]))

\* AVG(IF(sub.normalized_score IS NOT NULL, sub.<col>, NULL)) over sub_measure rows
TopLevelScore(rows, col) ==
    Avg(rows, [a \in rows |-> IF ~IsNull(a.normalized_score) THEN a[col] ELSE Null])

TopLevelRowsAnyParent ==
    LET src == {a \in aggregated_scores : a.measure_level = "sub_measure"}
        keys == {<<a.fips, a.parent_measure>> : a \in src}
        grp(k) == {a \in src : a.fips = k[1] /\ a.parent_measure = k[2]}
        present(G) == Cardinality({a \in G : ~IsNull(a.normalized_score)})
        row(k, G) ==
           [fips |-> k[1],
            measure_name |-> k[2],
            measure_level |-> "top_level",
            parent_measure |-> <<>>,
            raw_score |-> TopLevelScore(G, "percentile_rank"),
            normalized_score |-> TopLevelScore(G, "normalized_score"),
            percentile_rank |-> TopLevelScore(G, "percentile_rank"),
            component_count |-> Cardinality(G),
            missing_components |-> Cardinality(G) - present(G),
            completeness_ratio |-> SafeDivide(RInt(present(G)), Cardinality(G))]
    IN  {row(k, grp(k)) : k \in keys}

\* Pass 3: the SELECT of aggregate_top_level_measures
TopLevelRows ==
    LET src == {a \in aggregated_scores :
                   /\ a.measure_level = "sub_measure"
                   /\ a.parent_measure \in TopLevelCategories}
        keys == {<<a.fips, a.parent_measure>> : a \in src}
        grp(k) == {a \in src : a.fips = k[1] /\ a.parent_measure = k[2]}
        present(G) == Cardinality({a \in G : ~IsNull(a.normalized_score)})
        row(k, G) ==
           [fips |-> k[1],
            measure_name |-> k[2],
            measure_level |-> "top_level",
            parent_measure |-> <<>>,
            raw_score |-> TopLevelScore(G, "percentile_rank"),
            normalized_score |-> TopLevelScore(G, "normalized_score"),
            percentile_rank |-> TopLevelScore(G, "percentile_rank"),
            component_count |-> Cardinality(G),
            missing_components |-> Cardinality(G) - present(G),
            completeness_ratio |-> SafeDivide(RInt(present(G)), Cardinality(G))]
    IN  {row(k, grp(k)) : k \in keys}

aggregate_top_level_measures ==
    /\ pc = "top_level"
    /\ aggregated_scores' = aggregated_scores \cup Inserted(TopLevelRows, run)
    /\ pc' = "summary"
    /\ UNCHANGED <<raw_metrics, metric_statistics, normalized_metrics, loop>>
    /\ UNCHANGED rest

\* generate_normalization_summary only reads the tables
generate_normalization_summary ==
    /\ pc = "summary"
    /\ pc' = "done"
    /\ UNCHANGED <<raw_metrics, tables, loop>>
    /\ UNCHANGED rest

\* a query of a stage outside the retry loop raises: run_stage2 re-raises
stage_raises ==
    /\ pc \in {"create_tables", "statistics", "normalize", "metric_groups",
               "sub_measures", "top_level", "summary"}
    /\ pc' = "failed"
    /\ UNCHANGED <<raw_metrics, tables, loop>>
    /\ UNCHANGED rest

Next ==
    \/ connect
    \/ create_normalization_tables
    \/ calculate_metric_statistics
    \/ normalize_begin
    \/ normalize_upload
    \/ normalize_error
    \/ normalize_return
    \/ aggregate_metric_groups
    \/ aggregate_sub_measures
    \/ aggregate_top_level_measures
    \/ generate_normalization_summary
    \/ stage_raises

Spec == Init /\ [][Next]_vars

(***************************************************************************)
(* run_stage2 invoked again on the same raw_metrics                        *)
(***************************************************************************)
\* main() is run again after a completed run: a new normalizer object starts
\* at connect(); the tables are as the completed run left them
main_again ==
    /\ pc = "done"
    /\ run < MaxRuns
    /\ run' = run + 1
    /\ first_run' = tables
    /\ pc' = "connect"
    /\ stats_df' = <<>>
    /\ idx' = 1
    /\ retry_count' = 0
    /\ iterations' = 0
    /\ processed_metrics' = {}
    /\ uploaded' = {}
    /\ UNCHANGED <<raw_metrics, tables, errors, cleaner, loader, dashboard>>

\* successive runs in which no query and no load job raises
NextAgain ==
    \/ connect
    \/ create_normalization_tables
    \/ calculate_metric_statistics
    \/ normalize_begin
    \/ normalize_upload
    \/ normalize_return
    \/ aggregate_metric_groups
    \/ aggregate_sub_measures
    \/ aggregate_top_level_measures
    \/ generate_normalization_summary
    \/ main_again

SpecAgain == Init /\ [][NextAgain]_vars

(***************************************************************************)
(* normalize_metrics when a load job is reported failed after it wrote     *)
(***************************************************************************)
\* one iteration of the retry loop in which the load job appends its rows and
\* job.result() (or a later statement of the try block) raises: the except
\* branch retries, or gives up after max_retries
normalize_upload_unacknowledged ==
    /\ pc = "normalize_loop"
    /\ idx <= Len(stats_df)
    /\ retry_count < max_retries
    /\ errors < MaxErrors
    /\ NormalizedData(stats_df[idx]) # {}
    /\ normalized_metrics' =
          normalized_metrics \cup LoadJob(NormalizedData(stats_df[idx]),
                                         JobId(stats_df[idx].metric_name))
    /\ errors' = errors + 1
    /\ IF retry_count + 1 < max_retries
       THEN /\ retry_count' = retry_count + 1
            /\ iterations' = iterations + 1
            /\ idx' = idx
       ELSE /\ retry_count' = 0
            /\ iterations' = 0
            /\ idx' = SkipProcessed(stats_df, processed_metrics, idx + 1)
    /\ UNCHANGED <<raw_metrics, metric_statistics, aggregated_scores, pc,
                   stats_df, processed_metrics, uploaded>>
    /\ UNCHANGED rest

\* one iteration of the retry loop in which values_query raises nothing and
\* returns no row: normalized_data stays empty, nothing is uploaded, success
\* stays False and retry_count is not incremented
normalize_empty ==
    /\ pc = "normalize_loop"
    /\ idx <= Len(stats_df)
    /\ retry_count < max_retries
    /\ iterations < MaxIterations
    /\ iterations' = iterations + 1
    /\ UNCHANGED <<raw_metrics, tables, pc, stats_df, idx, retry_count,
                   processed_metrics, uploaded, errors>>
    /\ UNCHANGED rest

NextAnyResult ==
    \/ Next
    \/ normalize_empty

SpecAnyResult == Init /\ [][NextAnyResult]_vars

NextUnacknowledged ==
    \/ Next
    \/ normalize_upload_unacknowledged

SpecUnacknowledged == Init /\ [][NextUnacknowledged]_vars

(***************************************************************************)
(* Stage 1 cleaning one cell                                               *)
(***************************************************************************)
\* stage 1 has created an empty raw_metrics and is about to clean one cell
InitClean ==
    /\ raw_metrics = {}
    /\ metric_statistics = {}
    /\ normalized_metrics = {}
    /\ aggregated_scores = {}
    /\ pc = "connect"
    /\ stats_df = <<>>
    /\ idx = 1
    /\ retry_count = 0
    /\ iterations = 0
    /\ processed_metrics = {}
    /\ uploaded = {}
    /\ errors = 0
    /\ run = 1
    /\ first_run = <<>>
    /\ value_str \in CellTexts \cup {NoneValue}
    /\ cleaned = {}
    /\ comparison_mode = "national"
    /\ current_state = NoState
    /\ session = [s \in Sessions |-> NoSession]
    /\ column_names = <<>>
    /\ col_idx = 0
    /\ metrics_data = {}
    /\ skipped_columns = 0
    /\ total_values = 0

\* load_metrics_data calls clean_numeric_value on the cell
clean_value ==
    /\ cleaned = {}
    /\ cleaned' = {clean_numeric_value(value_str)}
    /\ UNCHANGED <<raw_metrics, tables, pc, loop, run, first_run, value_str,
                   loader, dashboard>>

NextClean == clean_value

SpecClean == InitClean /\ [][NextClean]_vars

(***************************************************************************)
(* Stage 1 loading the metric columns of one sheet                         *)
(***************************************************************************)
\* the column names a sheet may have: column_name.split('_') gives 1, 2, 3 or
\* 4 segments
ColumnNames ==
    { <<"POPULATION">>, PeopleWealth, <<"PEOPLE", "WEALTH", "INCOME">>,
      LifeExpectancy }

\* column_names[3:] of the sheets: at least one and at most MaxColumns columns
ColumnSheets == UNION {[1..n -> ColumnNames] : n \in 1..MaxColumns}

\* the dictionaries appended to metrics_data for column col_idx (counted from 0)
\* with the parsed hierarchy: one per data row
MetricsDataOfColumn(hierarchy, k) ==
    { [fips |-> c,
       metric_name |-> hierarchy.original_name,
       raw_value |-> FixedCell(c, k + 1).raw_value,
       is_missing |-> FixedCell(c, k + 1).is_missing,
       top_level |-> hierarchy.top_level,
       sub_measure |-> hierarchy.sub_measure,
       metric_group |-> hierarchy.metric_group,
       column_index |-> k + 3] : c \in Fips }

InitLoad ==
    /\ raw_metrics = {}
    /\ metric_statistics = {}
    /\ normalized_metrics = {}
    /\ aggregated_scores = {}
    /\ pc = "load_metrics"
    /\ stats_df = <<>>
    /\ idx = 1
    /\ retry_count = 0
    /\ iterations = 0
    /\ processed_metrics = {}
    /\ uploaded = {}
    /\ errors = 0
    /\ run = 1
    /\ first_run = <<>>
    /\ value_str = <<>>
    /\ cleaned = {}
    /\ comparison_mode = "national"
    /\ current_state = NoState
    /\ session = [s \in Sessions |-> NoSession]
    /\ column_names \in ColumnSheets
    /\ col_idx = 0
    /\ metrics_data = {}
    /\ skipped_columns = 0
    /\ total_values = 0

\* one iteration of the column loop of load_metrics_data
load_metrics_column ==
    /\ pc = "load_metrics"
    /\ col_idx < Len(column_names)
    /\ LET hierarchy == parse_metric_hierarchy(column_names[col_idx + 1])
       IN  IF ~hierarchy.valid
           THEN /\ skipped_columns' = skipped_columns + 1
                /\ UNCHANGED <<metrics_data, total_values>>
           ELSE /\ metrics_data' =
                      metrics_data \cup MetricsDataOfColumn(hierarchy, col_idx)
                /\ total_values' = total_values + Cardinality(Fips)
                /\ UNCHANGED skipped_columns
    /\ col_idx' = col_idx + 1
    /\ UNCHANGED <<raw_metrics, tables, pc, loop, run, first_run, cleaner,
                   column_names, dashboard>>

\* after the column loop: the load jobs (WRITE_APPEND) and the summary, whose
\* missing_values / total_values raises ZeroDivisionError when no value was read
load_metrics_upload ==
    /\ pc = "load_metrics"
    /\ col_idx = Len(column_names)
    /\ raw_metrics' = raw_metrics \cup metrics_data
    /\ pc' = IF total_values = 0 THEN "load_raised" ELSE "loaded"
    /\ UNCHANGED <<tables, loop, run, first_run, cleaner, loader, dashboard>>

NextLoad ==
    \/ load_metrics_column
    \/ load_metrics_upload

SpecLoad == InitLoad /\ [][NextLoad]_vars

(***************************************************************************)
(* run_stage2 on a sheet with a flat and a nested column of one sub-measure *)
(***************************************************************************)
\* column_names[3:] of that sheet
flat_columns == <<PeopleWealth, WealthNested>>

\* the rows load_metrics_data appends to raw_metrics from that sheet, v being
\* the cleaned cells of the varied county
FlatRawMetrics(v) ==
    { [fips |-> ck[1],
       metric_name |-> parse_metric_hierarchy(flat_columns[ck[2]]).original_name,
       raw_value |-> (IF ck[1] \in VariedFips THEN v[ck[2]]
                      ELSE FixedCell(ck[1], ck[2])).raw_value,
       is_missing |-> (IF ck[1] \in VariedFips THEN v[ck[2]]
                       ELSE FixedCell(ck[1], ck[2])).is_missing,
       top_level |-> parse_metric_hierarchy(flat_columns[ck[2]]).top_level,
       sub_measure |-> parse_metric_hierarchy(flat_columns[ck[2]]).sub_measure,
       metric_group |-> parse_metric_hierarchy(flat_columns[ck[2]]).metric_group] :
      ck \in {x \in Fips \X (1..Len(flat_columns)) :
                parse_metric_hierarchy(flat_columns[x[2]]).valid} }

InitFlat ==
    /\ raw_metrics \in {FlatRawMetrics(v) :
                           v \in [1..Len(flat_columns) -> CleanedCells]}
    /\ metric_statistics = {}
    /\ normalized_metrics = {}
    /\ aggregated_scores = {}
    /\ pc = "connect"
    /\ stats_df = <<>>
    /\ idx = 1
    /\ retry_count = 0
    /\ iterations = 0
    /\ processed_metrics = {}
    /\ uploaded = {}
    /\ errors = 0
    /\ run = 1
    /\ first_run = <<>>
    /\ value_str = <<>>
    /\ cleaned = {}
    /\ comparison_mode = "national"
    /\ current_state = NoState
    /\ session = [s \in Sessions |-> NoSession]
    /\ column_names = <<>>
    /\ col_idx = 0
    /\ metrics_data = {}
    /\ skipped_columns = 0
    /\ total_values = 0

SpecFlat == InitFlat /\ [][Next]_vars

(***************************************************************************)
(* run_stage2 on a sheet with a column outside the three top-level names   *)
(***************************************************************************)
\* column_names[3:] of that sheet
mixed_columns ==
    <<PeopleWealth, TotalPopulation, <<"PRODUCTIVITY", "EMPLOYMENT">>,
      <<"PLACE", "LANDAIRWATER">> >>

\* the rows load_metrics_data appends to raw_metrics from that sheet, v being
\* the cleaned cells of the varied county
MixedRawMetrics(v) ==
    { [fips |-> ck[1],
       metric_name |-> parse_metric_hierarchy(mixed_columns[ck[2]]).original_name,
       raw_value |-> (IF ck[1] \in VariedFips THEN v[ck[2]]
                      ELSE FixedCell(ck[1], ck[2])).raw_value,
       is_missing |-> (IF ck[1] \in VariedFips THEN v[ck[2]]
                       ELSE FixedCell(ck[1], ck[2])).is_missing,
       top_level |-> parse_metric_hierarchy(mixed_columns[ck[2]]).top_level,
       sub_measure |-> parse_metric_hierarchy(mixed_columns[ck[2]]).sub_measure,
       metric_group |-> parse_metric_hierarchy(mixed_columns[ck[2]]).metric_group] :
      ck \in {x \in Fips \X (1..Len(mixed_columns)) :
                parse_metric_hierarchy(mixed_columns[x[2]]).valid} }

InitMixed ==
    /\ raw_metrics \in {MixedRawMetrics(v) :
                           v \in [1..Len(mixed_columns) -> CleanedCells]}
    /\ metric_statistics = {}
    /\ normalized_metrics = {}
    /\ aggregated_scores = {}
    /\ pc = "connect"
    /\ stats_df = <<>>
    /\ idx = 1
    /\ retry_count = 0
    /\ iterations = 0
    /\ processed_metrics = {}
    /\ uploaded = {}
    /\ errors = 0
    /\ run = 1
    /\ first_run = <<>>
    /\ value_str = <<>>
    /\ cleaned = {}
    /\ comparison_mode = "national"
    /\ current_state = NoState
    /\ session = [s \in Sessions |-> NoSession]
    /\ column_names = <<>>
    /\ col_idx = 0
    /\ metrics_data = {}
    /\ skipped_columns = 0
    /\ total_values = 0

SpecMixed == InitMixed /\ [][Next]_vars

(***************************************************************************)
(* The dashboard over a database that stage 2 has filled                   *)
(***************************************************************************)
\* the column names of the sheet behind the dashboard's database
dashboard_columns == <<PeopleWealth>> \o other_columns

\* the cleaned cell of county c in column k of that sheet: county 2 has a gap
\* in column 2
DashboardCell(c, k) ==
    IF c = 2 /\ k = 2 THEN MissingCell ELSE ValidCell(((c + k) % 5) + 1)

\* the rows load_metrics_data appends to raw_metrics from that sheet
DashboardRawMetrics ==
    { [fips |-> ck[1],
       metric_name |-> parse_metric_hierarchy(dashboard_columns[ck[2]]).original_name,
       raw_value |-> DashboardCell(ck[1], ck[2]).raw_value,
       is_missing |-> DashboardCell(ck[1], ck[2]).is_missing,
       top_level |-> parse_metric_hierarchy(dashboard_columns[ck[2]]).top_level,
       sub_measure |-> parse_metric_hierarchy(dashboard_columns[ck[2]]).sub_measure,
       metric_group |-> parse_metric_hierarchy(dashboard_columns[ck[2]]).metric_group] :
      ck \in {x \in Fips \X (1..Len(dashboard_columns)) :
                parse_metric_hierarchy(dashboard_columns[x[2]]).valid} }

\* state_code = fips[:2]: the counties of a state have consecutive FIPS codes
StateCode(c) == ((c - 1) \div CountiesPerState) + 1

\* table counties (load_counties_data): one row per row of the sheet
counties == {[fips |-> c, state |-> StateCode(c)] : c \in Fips}

\* the county named in the URL of session s
LoginCounty(s) ==
    CASE s = 1 -> NCounties
      [] s = 2 -> 2
      [] OTHER -> 1

\* provider.set_comparison_mode(mode, state_code): the provider's two fields
\* after the call
set_comparison_mode_unchecked(mode, state_code) ==
    IF mode = "state"
    THEN [comparison_mode |-> "state", current_state |-> state_code]
    ELSE [comparison_mode |-> "national", current_state |-> NoState]

set_comparison_mode(mode, state_code) ==
    IF mode = "state" /\ Truthy(state_code)
    THEN [comparison_mode |-> "state", current_state |-> state_code]
    ELSE [comparison_mode |-> "national", current_state |-> NoState]

\* provider.get_all_counties(): counties_query
get_all_counties ==
    LET data_completeness(c) ==
           Cardinality({a \in aggregated_scores :
                           /\ a.fips = c.fips
                           /\ a.measure_level = "sub_measure"
                           /\ ~IsNull(a.normalized_score)})
    IN  { [fips_code |-> c.fips, state_code |-> c.state] :
          c \in {x \in counties : data_completeness(x) >= MinDataCompleteness} }

\* top_level_mapping of get_county_metrics; "" where .get() returns None
DisplayTopLevel(top_level) ==
    CASE top_level = <<"People">> -> "Society"
      [] top_level = <<"Productivity">> -> "Economy"
      [] top_level = <<"Place">> -> "Environment"
      [] OTHER -> ""

\* provider.get_county_metrics(county_fips): county_info and structured_data,
\* the latter as the set of its (top level, sub-measure, value) entries
get_county_metrics(county_fips) ==
    LET county_info == {c \in counties : c.fips = county_fips}
        submeasures_df ==
           {a \in aggregated_scores :
               /\ a.fips = county_fips
               /\ a.measure_level = "sub_measure"
               /\ ~IsNull(a.normalized_score)}
        structured_data ==
           { [top_level |-> DisplayTopLevel(a.parent_measure),
              sub_measure |-> a.measure_name[2],
              percentile_rank |-> a.percentile_rank] :
             a \in {x \in submeasures_df : DisplayTopLevel(x.parent_measure) # ""} }
    IN  IF county_info = {}
        THEN [county_info |-> {}, structured_data |-> {}]
        ELSE [county_info |-> county_info, structured_data |-> structured_data]

\* top_level_mapping of get_submetric_details applied to top_level.lower(),
\* as the value of raw_metrics.top_level it selects
DbTopLevel(top_level) ==
    CASE top_level = "Society" -> "People"
      [] top_level = "Economy" -> "Productivity"
      [] top_level = "Environment" -> "Place"
      [] OTHER -> top_level

\* provider.get_submetric_details(county_fips, top_level, sub_category):
\* details_query
get_submetric_details(county_fips, top_level, sub_category) ==
    LET nm_rm ==
           {j \in {n \in normalized_metrics :
                      n.fips = county_fips /\ n.is_missing = FALSE}
                  \X {r \in raw_metrics : r.fips = county_fips} :
               /\ j[1].metric_name = j[2].metric_name
               /\ j[2].top_level = DbTopLevel(top_level)
               /\ j[2].sub_measure = sub_category}
        \* LEFT JOIN metric_statistics ms ON nm.metric_name = ms.metric_name
        ms_of(nm) ==
           LET matching == {st \in metric_statistics :
                               st.metric_name = nm.metric_name}
           IN  IF matching = {}
               THEN {[is_reverse_metric |-> NullString, inserted_in |-> 0]}
               ELSE {[is_reverse_metric |-> st.is_reverse_metric,
                      inserted_in |-> st.inserted_in] : st \in matching}
    IN  UNION { { [metric_name |-> j[2].metric_name,
                   metric_value |-> j[1].raw_value,
                   percentile_rank |-> j[1].percentile_rank,
                   is_reverse_metric |-> ms.is_reverse_metric,
                   job_id |-> j[1].job_id,
                   inserted_in |-> ms.inserted_in] : ms \in ms_of(j[1]) } :
                j \in nm_rm }

\* the points of the radar chart that are clicked: customdata of a point is
\* [category, sub_cat] of an entry of county_data
ClickedSubMeasures == {"Wealth"}

InitDashboard ==
    /\ raw_metrics = DashboardRawMetrics
    /\ metric_statistics = {}
    /\ normalized_metrics = {}
    /\ aggregated_scores = {}
    /\ pc = "connect"
    /\ stats_df = <<>>
    /\ idx = 1
    /\ retry_count = 0
    /\ iterations = 0
    /\ processed_metrics = {}
    /\ uploaded = {}
    /\ errors = 0
    /\ run = 1
    /\ first_run = <<>>
    /\ value_str = <<>>
    /\ cleaned = {}
    /\ comparison_mode = "national"
    /\ current_state = NoState
    /\ session = [s \in Sessions |-> NoSession]
    /\ column_names = <<>>
    /\ col_idx = 0
    /\ metrics_data = {}
    /\ skipped_columns = 0
    /\ total_values = 0

\* authenticate_and_display(url_search) of session s; is_valid is the result of
\* validate_county_access
authenticate_and_display(s, is_valid) ==
    /\ pc = "done"
    /\ LET county_fips == LoginCounty(s)
           m == get_county_metrics(county_fips)
           p == set_comparison_mode("national", NoState)
       IN  IF ~is_valid \/ m.county_info = {}
           THEN /\ session' = [session EXCEPT ![s] = NoSession]
                /\ UNCHANGED <<comparison_mode, current_state>>
           ELSE /\ comparison_mode' = p.comparison_mode
                /\ current_state' = p.current_state
                /\ session' = [session EXCEPT ![s] =
                                  [NoSession EXCEPT
                                      !.county_fips = county_fips,
                                      !.county_data = m.structured_data]]
    /\ UNCHANGED <<raw_metrics, tables, pc, loop, run, first_run, cleaner, loader>>

\* update_comparison_mode: one of the two buttons of session s is clicked
update_comparison_mode(s, button_id) ==
    /\ pc = "done"
    /\ session[s].county_fips # 0
    /\ session' = [session EXCEPT ![s].comparison_mode_store =
                      IF button_id = "national-mode-btn" THEN "national"
                      ELSE IF button_id = "state-mode-btn" THEN "state"
                      ELSE @]
    /\ UNCHANGED <<raw_metrics, tables, pc, loop, run, first_run, cleaner, loader,
                   comparison_mode, current_state>>

\* update_county_data(comparison_mode, auth_data) of session s
update_county_data(s) ==
    /\ pc = "done"
    /\ session[s].county_fips # 0
    /\ LET county_fips == session[s].county_fips
           county_row == {c \in get_all_counties : c.fips_code = county_fips}
           p == IF session[s].comparison_mode_store = "state"
                THEN IF county_row # {}
                     THEN set_comparison_mode(
                             "state", (CHOOSE c \in county_row : TRUE).state_code)
                     ELSE [comparison_mode |-> comparison_mode,
                           current_state |-> current_state]
                ELSE set_comparison_mode("national", NoState)
           m == get_county_metrics(county_fips)
       IN  /\ comparison_mode' = p.comparison_mode
           /\ current_state' = p.current_state
           /\ session' = [session EXCEPT
                             ![s].county_data = m.structured_data,
                             ![s].data_mode = p.comparison_mode,
                             ![s].data_state = p.current_state,
                             ![s].chart_due = TRUE]
    /\ UNCHANGED <<raw_metrics, tables, pc, loop, run, first_run, cleaner, loader>>

\* update_radar_chart(county_data, county_info, auth_data) of session s: Dash
\* calls it when update_county_data has written its two stores; the figure
\* takes its comparison_context from the provider's fields
update_radar_chart(s) ==
    /\ pc = "done"
    /\ session[s].county_fips # 0
    /\ session[s].chart_due
    /\ session' = [session EXCEPT
                      ![s].chart_due = FALSE,
                      ![s].chart_mode =
                         IF session[s].county_data = {} THEN "national"
                         ELSE comparison_mode,
                      ![s].chart_state =
                         IF session[s].county_data = {} THEN NoState
                         ELSE current_state]
    /\ UNCHANGED <<raw_metrics, tables, pc, loop, run, first_run, cleaner, loader,
                   comparison_mode, current_state>>

\* handle_radar_click(clickData, county_info) of session s
handle_radar_click(s, custom_data) ==
    /\ pc = "done"
    /\ session[s].county_fips # 0
    /\ \E d \in session[s].county_data :
          custom_data = <<d.top_level, d.sub_measure>>
    /\ LET details_df == get_submetric_details(session[s].county_fips,
                                               custom_data[1], custom_data[2])
       IN  session' = [session EXCEPT
                          ![s].details = details_df,
                          ![s].details_mode =
                             IF details_df = {} THEN "national" ELSE comparison_mode,
                          ![s].details_state =
                             IF details_df = {} THEN NoState ELSE current_state]
    /\ UNCHANGED <<raw_metrics, tables, pc, loop, run, first_run, cleaner, loader,
                   comparison_mode, current_state>>

NextDashboard ==
    \/ connect
    \/ create_normalization_tables
    \/ calculate_metric_statistics
    \/ normalize_begin
    \/ normalize_upload
    \/ normalize_return
    \/ aggregate_metric_groups
    \/ aggregate_sub_measures
    \/ aggregate_top_level_measures
    \/ generate_normalization_summary
    \/ \E s \in Sessions, is_valid \in BOOLEAN : authenticate_and_display(s, is_valid)
    \/ \E s \in Sessions, button_id \in {"national-mode-btn", "state-mode-btn"} :
          update_comparison_mode(s, button_id)
    \/ \E s \in Sessions : update_county_data(s)
    \/ \E s \in Sessions : update_radar_chart(s)
    \/ \E s \in Sessions, sub_cat \in ClickedSubMeasures :
          handle_radar_click(s, <<"Society", sub_cat>>)

SpecDashboard == InitDashboard /\ [][NextDashboard]_vars

(***************************************************************************)
(* The provider object under arbitrary calls of set_comparison_mode        *)
(***************************************************************************)
\* the values a caller passes as mode: the two modes, another word, ''
ModeArguments == {"national", "state", "county", ""}

\* the values a caller passes as state_code: None, '', and the two-digit
\* prefixes of FIPS codes
StateCodeArguments == {NoState, EmptyState} \cup (1..MaxStateCode)

\* the provider after __init__
InitProvider ==
    /\ raw_metrics = {}
    /\ metric_statistics = {}
    /\ normalized_metrics = {}
    /\ aggregated_scores = {}
    /\ pc = "connect"
    /\ stats_df = <<>>
    /\ idx = 1
    /\ retry_count = 0
    /\ iterations = 0
    /\ processed_metrics = {}
    /\ uploaded = {}
    /\ errors = 0
    /\ run = 1
    /\ first_run = <<>>
    /\ value_str = <<>>
    /\ cleaned = {}
    /\ comparison_mode = "national"
    /\ current_state = NoState
    /\ session = [s \in Sessions |-> NoSession]
    /\ column_names = <<>>
    /\ col_idx = 0
    /\ metrics_data = {}
    /\ skipped_columns = 0
    /\ total_values = 0

\* one call provider.set_comparison_mode(mode, state_code)
call_set_comparison_mode(mode, state_code) ==
    /\ comparison_mode' = set_comparison_mode(mode, state_code).comparison_mode
    /\ current_state' = set_comparison_mode(mode, state_code).current_state
    /\ UNCHANGED <<raw_metrics, tables, pc, loop, run, first_run, cleaner, loader,
                   session>>

NextProvider ==
    \E mode \in ModeArguments, state_code \in StateCodeArguments :
        call_set_comparison_mode(mode, state_code)

SpecProvider == InitProvider /\ [][NextProvider]_vars

(***************************************************************************)
(* Vocabulary of the properties                                            *)
(***************************************************************************)
Level(level) == {a \in aggregated_scores : a.measure_level = level}

\* the leaf rows of normalized_metrics of county f whose metric path starts
\* with the components of the measure name
LeavesUnder(f, name) ==
    {n \in normalized_metrics :
        /\ n.fips = f
        /\ LET h == parse_metric_hierarchy(n.metric_name)
               path == <<h.top_level, h.sub_measure, h.metric_group>>
           IN  \A i \in 1..Len(name) : path[i] = name[i]}

PresentLeaves(L) == {n \in L : n.is_missing = FALSE}

\* arithmetic mean of a column over a non-empty set of rows without NULLs
Mean(S, col) == RDivInt(SumRat(S, [x \in S |-> x[col]]), Cardinality(S))

\* the metric_group rows below a sub_measure row
GroupsBelow(a) ==
    {g \in Level("metric_group") : g.fips = a.fips /\ g.parent_measure = a.measure_name}

\* the leaves of a sub-measure that are not members of an emitted group row
DirectLeaves(a) ==
    {n \in LeavesUnder(a.fips, a.measure_name) :
        \A g \in GroupsBelow(a) : n \notin LeavesUnder(a.fips, g.measure_name)}

\* the sub_measure rows below a top_level row
SubMeasuresBelow(a) ==
    {x \in Level("sub_measure") : x.fips = a.fips /\ x.parent_measure = a.measure_name}

(***************************************************************************)
(* C1                                                                      *)
(***************************************************************************)
\* the score Pass 2 is claimed to produce: every group row weighs its
\* component_count, every direct leaf weighs 1
ComponentWeighted(a, gcol, lcol) ==
    LET G == GroupsBelow(a)
        D == DirectLeaves(a)
    IN  RDivInt(RAdd(SumRat(G, [g \in G |-> RMulInt(g[gcol], g.component_count)]),
                     SumRat(D, [n \in D |-> n[lcol]])),
                SumInt(G, [g \in G |-> g.component_count]) + Cardinality(D))

\* C1: for every county and sub-measure (here: those without any missing leaf),
\* the sub_measure percentile_rank and normalized_score equal the
\* component-count-weighted mean of its metric_group rows (weight
\* component_count) and its direct leaf metrics (weight 1)
C1_WeightedByComponentCount ==
    \A a \in Level("sub_measure") :
        LET L == LeavesUnder(a.fips, a.measure_name)
        IN  (L # {} /\ PresentLeaves(L) = L) =>
               /\ a.percentile_rank = ComponentWeighted(a, "percentile_rank", "percentile_rank")
               /\ a.normalized_score = ComponentWeighted(a, "normalized_score", "normalized_value")

(***************************************************************************)
(* C2                                                                      *)
(***************************************************************************)
\* C2: in Pass 2 every leaf of a (county, sub-measure) is counted exactly once:
\* through its emitted metric_group row, or directly when it belongs to none,
\* so that component_count and missing_components of the sub_measure row are
\* the sums over the group rows plus the direct leaves
C2_LeafCountedOnce ==
    \A a \in Level("sub_measure") :
        LET G == GroupsBelow(a)
            D == DirectLeaves(a)
        IN  /\ a.component_count =
                  SumInt(G, [g \in G |-> g.component_count]) + Cardinality(D)
            /\ a.missing_components =
                  SumInt(G, [g \in G |-> g.missing_components])
                  + Cardinality(D \ PresentLeaves(D))

(***************************************************************************)
(* C3                                                                      *)
(***************************************************************************)
\* C3: aggregated_scores holds no row for a (county, measure), at any of the
\* three levels, all of whose leaf components are missing for the county
C3_AllMissingAbsent ==
    \A a \in aggregated_scores :
        PresentLeaves(LeavesUnder(a.fips, a.measure_name)) # {}

(***************************************************************************)
(* C4                                                                      *)
(***************************************************************************)
\* C4: the percentile_rank of a sub_measure row with at least one non-missing
\* leaf lies between the minimum and the maximum percentile_rank of its
\* non-missing leaves
C4_WithinLeafRange ==
    \A a \in Level("sub_measure") :
        LET P == PresentLeaves(LeavesUnder(a.fips, a.measure_name))
        IN  P # {} =>
               /\ \E n \in P : RLe(n.percentile_rank, a.percentile_rank)
               /\ \E n \in P : RLe(a.percentile_rank, n.percentile_rank)

(***************************************************************************)
(* C5                                                                      *)
(***************************************************************************)
\* C5: the percentile_rank and normalized_score of every top_level row are the
\* plain arithmetic mean of the sub_measure rows under it
C5_TopLevelEqualWeights ==
    \A a \in Level("top_level") :
        LET S == SubMeasuresBelow(a)
        IN  /\ S # {}
            /\ a.percentile_rank = Mean(S, "percentile_rank")
            /\ a.normalized_score = Mean(S, "normalized_score")

\* a top_level row over two sub-measures of different component_count and
\* different percentile_rank
C5_Witness ==
    \E a \in Level("top_level") :
        \E x, y \in SubMeasuresBelow(a) :
            /\ x.component_count > y.component_count
            /\ x.percentile_rank # y.percentile_rank
            /\ a.percentile_rank = RDivInt(RAdd(x.percentile_rank, y.percentile_rank), 2)

(***************************************************************************)
(* C6                                                                      *)
(***************************************************************************)
\* C6: for every metric_group row, component_count counts all leaves of the
\* group, missing_components the missing ones, completeness_ratio is
\* (component_count - missing_components) / component_count, and
\* normalized_score and percentile_rank are the mean over the non-missing
\* leaves only
C6_MissingLeavesAbsent ==
    \A a \in Level("metric_group") :
        LET L == LeavesUnder(a.fips, a.measure_name)
            P == PresentLeaves(L)
        IN  /\ a.component_count = Cardinality(L)
            /\ a.missing_components = Cardinality(L \ P)
            /\ a.completeness_ratio =
                  Rat(a.component_count - a.missing_components, a.component_count)
            /\ P # {} => /\ a.percentile_rank = Mean(P, "percentile_rank")
                         /\ a.normalized_score = Mean(P, "normalized_value")

\* a group of 3 leaves of which 1 is missing: completeness 2/3
C6_Witness ==
    \E a \in Level("metric_group") :
        /\ a.component_count = 3
        /\ a.missing_components = 1
        /\ a.completeness_ratio = <<2, 3>>
        /\ ~IsNull(a.percentile_rank)

(***************************************************************************)
(* C7                                                                      *)
(***************************************************************************)
\* C7: every row of aggregated_scores has 0 <= missing_components <=
\* component_count, component_count >= 1 and 0 <= completeness_ratio <= 1
C7_CompletenessIsFraction ==
    \A a \in aggregated_scores :
        /\ 0 <= a.missing_components
        /\ a.missing_components <= a.component_count
        /\ a.component_count >= 1
        /\ ~IsNull(a.completeness_ratio)
        /\ RLe(RInt(0), a.completeness_ratio)
        /\ RLe(a.completeness_ratio, RInt(1))

IsReverse(m) == \E st \in metric_statistics : st.metric_name = m /\ st.is_reverse_metric

\* the valid observations of a metric
ValidRaw(m) ==
    {r \in raw_metrics : r.metric_name = m /\ r.is_missing = FALSE /\ ~IsNull(r.raw_value)}

\* C9: within one metric, raw_A < raw_B implies percentile_A <= percentile_B
\* for a non-reverse metric and percentile_A >= percentile_B for a reverse
\* metric, whose percentile is 100 minus the percentile of the same value in
\* the same distribution
C9_ReverseMonotone ==
    \A m \in {n.metric_name : n \in normalized_metrics} :
        LET R == {n \in normalized_metrics : n.metric_name = m /\ n.is_missing = FALSE}
            V == ValidRaw(m)
        IN  \A x \in R :
               /\ \A y \in R :
                     RLt(x.raw_value, y.raw_value) =>
                        IF IsReverse(m)
                        THEN RLe(y.percentile_rank, x.percentile_rank)
                        ELSE RLe(x.percentile_rank, y.percentile_rank)
               /\ IsReverse(m) =>
                     x.percentile_rank =
                        RSub(RInt(100), percentileofscore(V, x.raw_value))

\* two observations of a reverse metric whose percentiles are strictly inverted
C9_Witness ==
    \E x, y \in normalized_metrics :
        /\ x.metric_name = y.metric_name
        /\ IsReverse(x.metric_name)
        /\ x.is_missing = FALSE /\ y.is_missing = FALSE
        /\ RLt(x.raw_value, y.raw_value)
        /\ RLt(y.percentile_rank, x.percentile_rank)

C11_AppendOnce ==
    pc \in {"metric_groups", "sub_measures", "top_level", "summary", "done"} =>
        \A n1 \in normalized_metrics : \A n2 \in normalized_metrics :
            (n1.fips = n2.fips /\ n1.metric_name = n2.metric_name) => n1 = n2

\* C12: a metric is attempted at most max_retries times: every attempt is made
\* with retry_count below max_retries and a repeated attempt raises
\* retry_count by one; when the last attempt raises, the metric is left
\* without rows and not counted, the loop moves on to a later metric without
\* raising, and when the loop is over every metric that did not fail
\* max_retries times has been uploaded
C12_BoundedRetry ==
    /\ [](pc \in {"metric_groups", "sub_measures", "top_level", "summary", "done"} =>
            (Len(stats_df) - Cardinality(uploaded)) * max_retries <= errors)
    /\ [][(pc = "normalize_loop" /\ idx <= Len(stats_df)) =>
            /\ retry_count < max_retries
            /\ (idx' = idx /\ pc' = pc) => retry_count' = retry_count + 1
            /\ (errors' # errors /\ retry_count + 1 = max_retries) =>
                  /\ pc' = "normalize_loop"
                  /\ idx' > idx
                  /\ retry_count' = 0
                  /\ uploaded' = uploaded
                  /\ normalized_metrics' = normalized_metrics
                  /\ stats_df[idx].metric_name \notin uploaded]_vars

\* a metric that failed max_retries times was skipped and a later metric was
\* uploaded
C12_Witness ==
    /\ errors = max_retries
    /\ \E i \in 1..Len(stats_df) : \E j \in 1..Len(stats_df) :
          /\ i < j
          /\ stats_df[i].metric_name \notin uploaded
          /\ stats_df[j].metric_name \in uploaded
          /\ \E n \in normalized_metrics : n.metric_name = stats_df[j].metric_name
          /\ ~\E n \in normalized_metrics : n.metric_name = stats_df[i].metric_name

\* C13: once the statistics stage has run, a metric has a metric_statistics
\* row if and only if it has at least 10 non-missing observations, and a
\* metric with fewer has no row in normalized_metrics
C13_MinimumSample ==
    pc \in {"normalize", "normalize_loop", "metric_groups", "sub_measures",
            "top_level", "summary", "done"} =>
        \A m \in {r.metric_name : r \in raw_metrics} :
            /\ (\E st \in metric_statistics : st.metric_name = m)
                  <=> Cardinality(ValidRaw(m)) >= 10
            /\ Cardinality(ValidRaw(m)) < 10 =>
                  ~\E n \in normalized_metrics : n.metric_name = m

\* the statistics stage has run on a sheet with a metric of exactly 10 valid
\* observations, which has a row, and a metric of exactly 9, which has none
C13_Witness ==
    /\ pc = "done"
    /\ \E st \in metric_statistics : Cardinality(ValidRaw(st.metric_name)) = 10
    /\ \E m \in {r.metric_name : r \in raw_metrics} :
          /\ Cardinality(ValidRaw(m)) = 9
          /\ ~\E st \in metric_statistics : st.metric_name = m

\* C14: every metric with a row in normalized_metrics has at least 10 valid
\* observations, not all of the same value, and a statistics row with
\* valid_counties >= 10 and std_dev > 0; a metric whose std_dev is 0 has no
\* row in normalized_metrics
C14_DegenerateExcluded ==
    \A m \in {n.metric_name : n \in normalized_metrics} :
        /\ Cardinality(ValidRaw(m)) >= 10
        /\ \E r1 \in ValidRaw(m) : \E r2 \in ValidRaw(m) : r1.raw_value # r2.raw_value
        /\ \A st \in metric_statistics :
              st.metric_name = m => st.valid_counties >= 10 /\ st.std_dev # RInt(0)

\* the run is over, a metric of zero variance has a statistics row and no
\* normalized row, and other metrics have been normalized
C14_Witness ==
    /\ pc = "done"
    /\ normalized_metrics # {}
    /\ \E st \in metric_statistics :
          /\ st.std_dev = RInt(0)
          /\ ~\E n \in normalized_metrics : n.metric_name = st.metric_name

\* C15: in every metric_statistics row total_counties is the number of all
\* raw observations of the metric (the missing ones included), valid_counties
\* the number of non-missing ones, missing_counties their difference and
\* data_quality_score = valid_counties / total_counties, which is below 1 when
\* an observation of the metric is missing
C15_StatisticsCompleteness ==
    \A st \in metric_statistics :
        LET total == Cardinality({r \in raw_metrics : r.metric_name = st.metric_name})
            valid == Cardinality(ValidRaw(st.metric_name))
        IN  /\ st.total_counties = total
            /\ st.valid_counties = valid
            /\ st.missing_counties = total - valid
            /\ st.data_quality_score = Rat(valid, total)
            /\ valid < total => RLt(st.data_quality_score, RInt(1))

\* the positions of run_stage2 in program order
StageOrder ==
    <<"connect", "create_tables", "statistics", "normalize", "normalize_loop",
      "metric_groups", "sub_measures", "top_level", "summary", "done">>

\* C17: run_stage2 moves from one stage to the next one only, or to the
\* failure exit; the metric loop is exhausted when Pass 1 starts; each table
\* is written only by its own stage (statistics, then normalization, then
\* Pass 1, Pass 2 and Pass 3 in this order); and nothing happens after
\* connect() failed or a stage raised
C17_StageOrder ==
    [][/\ pc' # pc =>
             \/ pc' = "failed"
             \/ \E i \in 1..(Len(StageOrder) - 1) :
                    pc = StageOrder[i] /\ pc' = StageOrder[i + 1]
       /\ pc' = "metric_groups" => idx' > Len(stats_df')
       /\ pc = "failed" => UNCHANGED vars
       /\ metric_statistics' # metric_statistics =>
             pc \in {"create_tables", "statistics"}
       /\ normalized_metrics' # normalized_metrics =>
             pc \in {"create_tables", "normalize_loop"}
       /\ \A level \in {"metric_group", "sub_measure", "top_level"} :
             {a \in aggregated_scores' : a.measure_level = level} #
                {a \in aggregated_scores : a.measure_level = level} =>
                   \/ pc = "create_tables"
                   \/ level = "metric_group" /\ pc = "metric_groups"
                   \/ level = "sub_measure" /\ pc = "sub_measures"
                   \/ level = "top_level" /\ pc = "top_level"]_vars

\* a run that went through every stage and wrote all three tables
C17_Witness ==
    /\ pc = "done"
    /\ metric_statistics # {}
    /\ normalized_metrics # {}
    /\ \A level \in {"metric_group", "sub_measure", "top_level"} : Level(level) # {}

\* the columns of the rows of a table
Columns(T) ==
    {[f \in DOMAIN r \ {"inserted_in", "job_id"} |-> r[f]] : r \in T}

\* C18: when run_stage2 has completed a second time on the same raw_metrics
\* and no upload failed, each of the three tables holds exactly the rows the
\* first run left: no row twice and no row missing
C18_RerunIdempotent ==
    (pc = "done" /\ run > 1 /\ errors = 0) =>
        \A t \in 1..3 :
            /\ Columns(tables[t]) = Columns(first_run[t])
            /\ Cardinality(tables[t]) = Cardinality(first_run[t])

\* a second run has completed without failures over tables the first run had
\* filled
C18_Witness ==
    /\ pc = "done"
    /\ run = 2
    /\ errors = 0
    /\ \A t \in 1..3 : first_run[t] # {} /\ tables[t] # {}

\* the sample variance (divisor n - 1) of the raw values of a set of rows
SampleVariance(rows) ==
    LET mean == Avg(rows, [r \in rows |-> r.raw_value])
        sq == [r \in rows |-> RMul(RSub(r.raw_value, mean), RSub(r.raw_value, mean))]
    IN  RDivInt(SumRat(rows, sq), Cardinality(rows) - 1)

\* C19: when normalize_metrics has returned, for every normalized metric the
\* Z-scores of its non-missing observations are (raw - mean) / std_dev with
\* mean the mean and std_dev the sample (n - 1) standard deviation of exactly
\* those observations, so that they have mean 0 and sample standard deviation
\* 1. Floats are rounded down to multiples of 1/ZScale here, which is the
\* tolerance: the Z-scores sum to a value in (-n/ZScale, 0] and std_dev is
\* within 1/ZScale below the sample standard deviation
C19_ZScoreCentred ==
    pc = "metric_groups" =>
        \A m \in {n.metric_name : n \in normalized_metrics} :
            LET P == {n \in normalized_metrics :
                         n.metric_name = m /\ n.is_missing = FALSE}
                V == ValidRaw(m)
                st == CHOOSE x \in metric_statistics : x.metric_name = m
                next == RAdd(st.std_dev, Rat(1, ZScale))
                var == SampleVariance(V)
                zsum == SumRat(P, [n \in P |-> n.normalized_value])
            IN  /\ {n.fips : n \in P} = {r.fips : r \in V}
                /\ Cardinality(P) = Cardinality(V)
                /\ st.mean_value = Avg(V, [r \in V |-> r.raw_value])
                /\ RLe(RMul(st.std_dev, st.std_dev), var)
                /\ RLt(var, RMul(next, next))
                /\ \A n \in P :
                      n.normalized_value =
                         RoundTo(RDiv(RSub(n.raw_value, st.mean_value), st.std_dev))
                /\ RLe(zsum, RInt(0))
                /\ RLt(Rat(-Cardinality(P), ZScale), zsum)

\* a normalized metric with a missing observation and Z-scores on both sides
\* of 0
C19_Witness ==
    \E n1 \in normalized_metrics : \E n2 \in normalized_metrics :
        /\ n1.metric_name = n2.metric_name
        /\ n1.is_missing = TRUE
        /\ n2.is_missing = FALSE
        /\ RLt(n2.normalized_value, RInt(0))
        /\ \E n3 \in normalized_metrics :
              /\ n3.metric_name = n1.metric_name
              /\ n3.is_missing = FALSE
              /\ RLt(RInt(0), n3.normalized_value)

\* C20: clean_numeric_value returns, for every cell, either (None, True) or
\* (a number, False): is_missing is True if and only if the value is None,
\* and text that is not a number is returned as missing
C20_CleanTotal ==
    \A r \in cleaned :
        /\ r.is_missing <=> IsNull(r.raw_value)
        /\ \/ r = [raw_value |-> Null, is_missing |-> TRUE]
           \/ r.is_missing = FALSE /\ r.raw_value[2] > 0

(***************************************************************************)
(* C16                                                                     *)
(***************************************************************************)
\* the leaf metrics of county fips under a sub-measure shown by the dashboard
LeavesShown(fips, top_level, sub_measure) ==
    {r \in raw_metrics :
        /\ r.fips = fips
        /\ DbTopLevel(top_level) = r.top_level
        /\ r.sub_measure = sub_measure
        /\ r.is_missing = FALSE}

\* the percentile of county fips in a metric among the counties of its state,
\* computed as normalize_metrics computes the national one
StatePercentile(fips, metric_name) ==
    LET all_rows == {r \in raw_metrics :
                        /\ r.metric_name = metric_name
                        /\ r.is_missing = FALSE
                        /\ ~IsNull(r.raw_value)
                        /\ StateCode(r.fips) = StateCode(fips)}
        own == CHOOSE r \in all_rows : r.fips = fips
    IN  PercentileRank(all_rows, own.raw_value, IsReverse(metric_name))

\* C16: when update_county_data has switched the provider to 'state' with the
\* state of the session's county, every value of the county data it returned
\* for a sub-measure with one leaf metric is that leaf's percentile among the
\* counties of the state; and every row of a drill-down fetched while the
\* provider is in that mode carries the metric's percentile among the counties
\* of the state.
C16_StateScope ==
    \A s \in Sessions :
        LET v == session[s]
        IN  /\ (v.county_fips # 0 /\ v.data_mode = "state"
                  /\ v.data_state = StateCode(v.county_fips))
               => \A d \in v.county_data :
                     LET leaves == LeavesShown(v.county_fips, d.top_level,
                                               d.sub_measure)
                     IN  Cardinality(leaves) = 1
                         => \A r \in leaves :
                               d.percentile_rank =
                                  StatePercentile(v.county_fips, r.metric_name)
            /\ (v.county_fips # 0 /\ v.details_mode = "state"
                  /\ v.details_state = StateCode(v.county_fips))
               => \A d \in v.details :
                     d.percentile_rank =
                        StatePercentile(v.county_fips, d.metric_name)

(***************************************************************************)
(* C21                                                                     *)
(***************************************************************************)
\* C21: currency signs, thousands separators, percent signs and whitespace
\* are removed before parsing ('$1,1' gives 11, '1%' gives 1, ' 1.1' gives
\* 1.1), '(1)' gives -1, and for every text n that cleans to a number the
\* cleaned value of '(' + n + ')' is minus the cleaned value of n.
C21_ParenthesesNegate ==
    \A r \in cleaned :
        /\ value_str = <<"$", "1", ",", "1">>
              => r = [raw_value |-> RInt(11), is_missing |-> FALSE]
        /\ value_str = <<"1", "%">>
              => r = [raw_value |-> RInt(1), is_missing |-> FALSE]
        /\ value_str = <<" ", "1", ".", "1">>
              => r = [raw_value |-> Rat(11, 10), is_missing |-> FALSE]
        /\ value_str = <<"(", "1", ")">>
              => r = [raw_value |-> RInt(-1), is_missing |-> FALSE]
        /\ (/\ value_str # NoneValue
            /\ Len(value_str) >= 2
            /\ Head(value_str) = "("
            /\ value_str[Len(value_str)] = ")")
              => LET n == clean_numeric_value(
                             SubSeq(value_str, 2, Len(value_str) - 1))
                 IN  (n.is_missing = FALSE /\ n.raw_value[2] > 0)
                        => r = [raw_value |-> RNeg(n.raw_value),
                                is_missing |-> FALSE]

(***************************************************************************)
(* C22                                                                     *)
(***************************************************************************)
\* the positions (from 1) of the columns of the sheet with a valid hierarchy
ValidColumns ==
    {k \in 1..Len(column_names) : Len(column_names[k]) >= 2}

\* C22: parse_metric_hierarchy returns None exactly for the names with fewer
\* than 2 segments; load_metrics_data does not abort, and when it is done
\* skipped_columns counts the columns with such names, raw_metrics has no row
\* of such a column and has one row per data row for every other column.
C22_MalformedRejected ==
    /\ \A name \in ColumnNames :
          parse_metric_hierarchy(name).valid <=> Len(name) >= 2
    /\ pc # "load_raised"
    /\ pc = "loaded" =>
          /\ skipped_columns = Len(column_names) - Cardinality(ValidColumns)
          /\ \A r \in raw_metrics :
                /\ r.column_index - 2 \in ValidColumns
                /\ r.metric_name = column_names[r.column_index - 2]
          /\ \A k \in ValidColumns, c \in Fips :
                Cardinality({r \in raw_metrics :
                                /\ r.column_index = k + 2
                                /\ r.fips = c
                                /\ r.metric_name = column_names[k]}) = 1

(***************************************************************************)
(* C23                                                                     *)
(***************************************************************************)
\* the distinct leaf metrics of county f that have normalized rows under a path
MetricsUnder(f, name) == {n.metric_name : n \in LeavesUnder(f, name)}

\* the path <<top_level, sub_measure, metric_group>> of a leaf metric
GroupPath(metric_name) ==
    LET h == parse_metric_hierarchy(metric_name)
    IN  <<h.top_level, h.sub_measure, h.metric_group>>

C24_OnlyNestedGroups ==
    \A a \in Level("metric_group") :
        /\ a.measure_name[3] # a.measure_name[2]
        /\ \A n \in LeavesUnder(a.fips, a.measure_name) : Len(n.metric_name) # 2

(***************************************************************************)
(* C25                                                                     *)
(***************************************************************************)
\* a step of the aggregation pass that starts at position from and ends at
\* position to only adds rows of the given level to aggregated_scores
AppendsOnly(from, to, level) ==
    (pc = from /\ pc' = to) =>
        /\ aggregated_scores \subseteq aggregated_scores'
        /\ \A a \in aggregated_scores' \ aggregated_scores : a.measure_level = level
        /\ normalized_metrics' = normalized_metrics
        /\ raw_metrics' = raw_metrics

\* C25: each of the three aggregation passes only inserts rows of its own
\* measure_level into aggregated_scores and leaves the rows that were there,
\* and normalized_metrics and raw_metrics, unchanged.
C25_AppendOnly ==
    [][/\ AppendsOnly("metric_groups", "sub_measures", "metric_group")
       /\ AppendsOnly("sub_measures", "top_level", "sub_measure")
       /\ AppendsOnly("top_level", "summary", "top_level")]_vars

\* the three passes have run and each has left rows
C25_Witness ==
    /\ pc = "done"
    /\ Level("metric_group") # {}
    /\ Level("sub_measure") # {}
    /\ Level("top_level") # {}

(***************************************************************************)
(* C26                                                                     *)
(***************************************************************************)
\* the average percentile position of the group of values tied with v among
\* the valid values V: 50 * (values below + values at or below + 1) / n
TiePercentile(V, v) ==
    LET left == Cardinality({r \in V : RLt(r.raw_value, v)})
        right == Cardinality({r \in V : RLe(r.raw_value, v)})
    IN  Rat(50 * (left + right + 1), Cardinality(V))

\* C26 as stated: every non-missing observation of every metric has
\* percentile_rank = 50 * (values below + values at or below + 1) / n over
\* the n valid values of its metric.
C26_TieAverage ==
    \A m \in {n.metric_name : n \in normalized_metrics} :
        LET V == ValidRaw(m)
        IN  \A x \in {n \in normalized_metrics :
                         n.metric_name = m /\ n.is_missing = FALSE} :
               x.percentile_rank = TiePercentile(V, x.raw_value)

\* C26 amended: the average percentile position of the tied group is the
\* percentile_rank of a non-missing observation of a metric that is not
\* reverse, and 100 minus the percentile_rank of one of a reverse metric; so
\* observations of one metric with equal raw values have equal percentile_rank.
C26_TieAverageBeforeInversion ==
    \A m \in {n.metric_name : n \in normalized_metrics} :
        LET V == ValidRaw(m)
            reverse == IsReverse(m)
        IN  \A x \in {n \in normalized_metrics :
                         n.metric_name = m /\ n.is_missing = FALSE} :
               x.percentile_rank =
                  IF reverse
                  THEN RSub(RInt(100), TiePercentile(V, x.raw_value))
                  ELSE TiePercentile(V, x.raw_value)

\* two counties tied in a reverse metric and two counties tied in a metric
\* that is not reverse, all four with a percentile
C26_Witness ==
    /\ \E x, y \in normalized_metrics :
          /\ x.metric_name = y.metric_name /\ x.fips # y.fips
          /\ IsReverse(x.metric_name)
          /\ x.is_missing = FALSE /\ y.is_missing = FALSE
          /\ x.raw_value = y.raw_value
          /\ x.percentile_rank = y.percentile_rank
          /\ ~IsNull(x.percentile_rank)
    /\ \E x, y \in normalized_metrics :
          /\ x.metric_name = y.metric_name /\ x.fips # y.fips
          /\ ~IsReverse(x.metric_name)
          /\ x.is_missing = FALSE /\ y.is_missing = FALSE
          /\ x.raw_value = y.raw_value
          /\ x.percentile_rank = y.percentile_rank
          /\ ~IsNull(x.percentile_rank)

(***************************************************************************)
(* C27                                                                     *)
(***************************************************************************)
\* C27: the retry loop of a metric exits after at most max_retries
\* iterations: while it is running, fewer than max_retries iterations have
\* been completed without leaving it.
C27_RetryLoopExits ==
    iterations < max_retries

(***************************************************************************)
(* C28                                                                     *)
(***************************************************************************)
\* the comparison mode and state a session has chosen: its comparison-mode
\* store, and the state of its county when that store holds 'state'
OwnMode(s) == session[s].comparison_mode_store

OwnState(s) ==
    IF session[s].comparison_mode_store = "state"
    THEN StateCode(session[s].county_fips)
    ELSE NoState

\* C28: whenever update_radar_chart or handle_radar_click of a session renders
\* a chart, and the session's own update_county_data has applied the session's
\* current comparison-mode store, the mode and state of the provider the chart
\* is rendered with are those of that session's store, whatever the other
\* sessions have done in between.
C28_SessionIsolation ==
    [][\A s \in Sessions :
          ( /\ \/ update_radar_chart(s) /\ session[s].county_data # {}
               \/ \E sub_cat \in ClickedSubMeasures :
                     /\ handle_radar_click(s, <<"Society", sub_cat>>)
                     /\ session'[s].details # {}
            /\ session[s].data_mode = OwnMode(s)
            /\ session[s].data_state = OwnState(s) )
          => /\ comparison_mode = OwnMode(s)
             /\ current_state = OwnState(s)]_vars

(***************************************************************************)
(* C29                                                                     *)
(***************************************************************************)
\* C29: after any sequence of set_comparison_mode calls comparison_mode is
\* 'national' or 'state', and it is 'state' exactly when current_state holds a
\* non-empty state code; and a call with mode 'state' and no state code, or
\* with any other mode, leaves comparison_mode = 'national' and
\* current_state = None.
C29_ModeInvariant ==
    /\ [](/\ comparison_mode \in {"national", "state"}
          /\ comparison_mode = "state" <=> Truthy(current_state))
    /\ [][\A mode \in ModeArguments, state_code \in StateCodeArguments :
             ( /\ call_set_comparison_mode(mode, state_code)
               /\ mode # "state" \/ ~Truthy(state_code) )
             => /\ comparison_mode' = "national"
                /\ current_state' = NoState]_vars

\* a call has switched the provider to the comparison within a state
C29_Witness ==
    /\ pc = "connect"
    /\ comparison_mode = "state"
    /\ current_state = MaxStateCode

(***************************************************************************)
(* C30                                                                     *)
(***************************************************************************)
\* the top-level names that occur in aggregated_scores, and the three names
TopLevelNames ==
    {<<"People">>, <<"Productivity">>, <<"Place">>}
       \cup {a.parent_measure : a \in Level("sub_measure")}
       \cup {a.measure_name : a \in Level("top_level")}

\* C30: once aggregate_top_level_measures has run, aggregated_scores has a
\* top_level row for county c and name T exactly when T is 'People',
\* 'Productivity' or 'Place' and the county has a sub_measure row whose
\* parent_measure is T.
C30_ClosedTopLevels ==
    pc \in {"summary", "done"} =>
        \A c \in Fips, T \in TopLevelNames :
            (\E a \in Level("top_level") : a.fips = c /\ a.measure_name = T)
            <=> /\ T \in {<<"People">>, <<"Productivity">>, <<"Place">>}
                /\ \E b \in Level("sub_measure") :
                      b.fips = c /\ b.parent_measure = T

\* the pass has run on a table with sub_measure rows under 'Total' and under
\* 'People': the county has a top_level row for 'People' and none for 'Total'
C30_Witness ==
    /\ pc = "done"
    /\ \E b \in Level("sub_measure") :
          b.fips = 1 /\ b.parent_measure = <<"Total">>
    /\ \E a \in Level("top_level") : a.fips = 1 /\ a.measure_name = <<"People">>
    /\ ~\E a \in Level("top_level") : a.fips = 1 /\ a.measure_name = <<"Total">>
    /\ ~\E a \in Level("top_level") : a.measure_name = <<"Productivity">>

====
